---- MODULE Spec2Model ----
(***************************************************************************)
(* Model of subcortex-vis: the label mesh extractor (mesh_viz.py) and the  *)
(* interactive session controller MeshGui (gui/main_window.py) with its    *)
(* panels, renderer and debounced render timer.                            *)
(*                                                                         *)
(* Conventions.  Python floats are fixed-point integers in thousandths:    *)
(* voxel value 2.0 is 2000, threshold 0.5 is 500, sigma 0.8 is 800.  None  *)
(* is the empty tuple and an Optional value v is <<v>>.  A volume is a     *)
(* line of voxels (an N x 1 x 1 grid).  A Python dict is a sequence of     *)
(* <<key, value>> pairs in insertion order.                                *)
(***************************************************************************)
EXTENDS Integers, Sequences, FiniteSets, TLC

VARIABLES
    volume, spacing, origin,        \* MeshGui.volume / spacing / origin
    items,                          \* LabelListPanel.list_widget: rows [lbl, checked]
    label_colors,                   \* LabelListPanel.label_colors (ordered dict)
    label_values,                   \* ColormapPanel.label_values (ordered dict)
    use_colormap, current_colormap, \* ColormapPanel mode and colormap name
    colormap_vmin, colormap_vmax,   \* ColormapPanel range (Optional)
    vmin_spin, vmax_spin,           \* the two range spin boxes
    sigma, smooth_iter, show_edges, style, view,   \* RenderParamsPanel widgets
    timers,                         \* outstanding deferred callbacks of _render_timer (ms left)
    status,                         \* status_lbl text
    scene,                          \* what the plotter shows
    hist,                           \* history: what the render passes and events did
    nev,                            \* number of user operations so far
    ex                              \* one call of a pure function (SpecExtract, SpecView)

vars == <<volume, spacing, origin, items, label_colors, label_values, use_colormap,
          current_colormap, colormap_vmin, colormap_vmax, vmin_spin, vmax_spin,
          sigma, smooth_iter, show_edges, style, view, timers, status, scene,
          hist, nev, ex>>

guiVars == <<volume, spacing, origin, items, label_colors, label_values, use_colormap,
             current_colormap, colormap_vmin, colormap_vmax, vmin_spin, vmax_spin,
             sigma, smooth_iter, show_edges, style, view, timers, status, scene,
             hist, nev>>

-----------------------------------------------------------------------------
(* Bounds of the model *)

\* user operations explored per session
MaxEvents == 3

-----------------------------------------------------------------------------
(* Program constants *)

RENDER_DEBOUNCE_MS == 80

PALETTE == <<"#4C78A8", "#E45756", "#72B7B2", "#F28E2B",
             "#59A14F", "#B279A2", "#FF9DA6", "#9C755F">>

\* DEFAULT_SIGMA = 0.8, in thousandths
DEFAULT_SIGMA == 800

DEFAULT_SMOOTH_ITER == 30

None == <<>>

\* the colour ColorSquareDelegate.paint draws for a label that has none
NEUTRAL_COLOR == "#cccccc"

-----------------------------------------------------------------------------
(* Generic helpers: sequences, ordered dicts *)

Range(s) == {s[i] : i \in DOMAIN s}

Min(S) == CHOOSE x \in S : \A y \in S : x <= y

Max(S) == CHOOSE x \in S : \A y \in S : x >= y

RECURSIVE SortedSeq(_)
\* sorted(S) for a set S of numbers
SortedSeq(S) == IF S = {} THEN <<>> ELSE <<Min(S)>> \o SortedSeq(S \ {Min(S)})

RECURSIVE Filter(_, _)
\* the subsequence of s of the elements in S
Filter(s, S) ==
    IF s = <<>> THEN <<>>
    ELSE (IF Head(s) \in S THEN <<Head(s)>> ELSE <<>>) \o Filter(Tail(s), S)

Keys(d) == [i \in DOMAIN d |-> d[i][1]]

HasKey(d, k) == \E i \in DOMAIN d : d[i][1] = k

\* d.get(k, default)
DictGet(d, k, default) ==
    IF HasKey(d, k) THEN d[CHOOSE i \in DOMAIN d : d[i][1] = k][2] ELSE default

\* d[k] = v : in place for a known key, appended for a new one
DictSet(d, k, v) ==
    IF HasKey(d, k) THEN [i \in DOMAIN d |-> IF d[i][1] = k THEN <<k, v>> ELSE d[i]]
    ELSE Append(d, <<k, v>>)

RECURSIVE DictUpdate(_, _)
\* d.update(e)
DictUpdate(d, e) ==
    IF e = <<>> THEN d ELSE DictUpdate(DictSet(d, Head(e)[1], Head(e)[2]), Tail(e))

-----------------------------------------------------------------------------
(* mesh_viz.py: the label mesh extractor *)

\* scipy.ndimage.gaussian_filter's kernel in thousandths, radius 2:
\* exp(-x^2 / (2 sigma^2)) normalised, for the sigmas the model uses
GaussKernel(sg) ==
    IF sg >= 800 THEN <<22, 228, 499, 228, 22>> ELSE <<0, 40, 919, 40, 0>>

\* index i of a line of n voxels under scipy's default boundary mode 'reflect'
\* (d c b a | a b c d | d c b a)
Reflect(i, n) ==
    LET j == IF i < 1 THEN 1 - i ELSE IF i > n THEN 2 * n + 1 - i ELSE i
    IN  IF j < 1 THEN 1 ELSE IF j > n THEN n ELSE j

gaussian_filter(field, sg) ==
    LET n == Len(field)
        k == GaussKernel(sg)
    IN  [i \in 1..n |->
            (  k[1] * field[Reflect(i - 2, n)] + k[2] * field[Reflect(i - 1, n)]
             + k[3] * field[i]
             + k[4] * field[Reflect(i + 1, n)] + k[5] * field[Reflect(i + 2, n)]) \div 1000]

\* grid.contour(isosurfaces=[threshold]): one point on every grid edge whose end
\* values lie on different sides of the isovalue, at the interpolated position
contour(field, spc, org, threshold) ==
    LET crossing(i) == (field[i] >= threshold) # (field[i + 1] >= threshold)
        at(i) == org[1] + spc[1] * (i - 1)
                 + (spc[1] * (threshold - field[i])) \div (field[i + 1] - field[i])
    IN  [points |-> {at(i) : i \in {j \in 1..(Len(field) - 1) : crossing(j)}},
         yz |-> <<org[2], org[3]>>, smoothed |-> <<>>]

n_points(surface) == Cardinality(surface.points)

\* surface.smooth(n_iter, relaxation_factor): same points count, relaxed geometry
smooth(surface, n_iter, relaxation_factor) ==
    [surface EXCEPT !.smoothed = <<n_iter, relaxation_factor>>]

\* extract_isosurface that runs the Gaussian filter whatever sigma is
extract_isosurface_AlwaysBlur(vol, spc, org, threshold, sg, n_iter, smooth_relax) ==
    LET field   == gaussian_filter(vol, sg)
        surface == contour(field, spc, org, threshold)
    IN  IF n_points(surface) = 0 THEN None
        ELSE IF n_iter > 0 THEN <<smooth(surface, n_iter, smooth_relax)>>
        ELSE <<surface>>

\* extract_isosurface: None, or <<mesh>>
extract_isosurface(vol, spc, org, threshold, sg, n_iter, smooth_relax) ==
    LET field   == IF sg > 0 THEN gaussian_filter(vol, sg) ELSE vol
        surface == contour(field, spc, org, threshold)
    IN  IF n_points(surface) = 0 THEN None
        ELSE IF n_iter > 0 THEN <<smooth(surface, n_iter, smooth_relax)>>
        ELSE <<surface>>

\* Mask with the comparison widened to >=
Mask_AtLeast(vol, lbl) == [i \in DOMAIN vol |-> IF vol[i] >= lbl THEN 1000 ELSE 0]

\* mask = (volume == lbl).astype(float)
Mask(vol, lbl) == [i \in DOMAIN vol |-> IF vol[i] = lbl THEN 1000 ELSE 0]

\* LabelPairs without the "mesh is not None" test: the bare contour is kept
LabelPairs_KeepEmpty(vol, lbl, spc, org, sg, n_iter, smooth_relax, threshold) ==
    LET field == IF sg > 0 THEN gaussian_filter(Mask(vol, lbl), sg) ELSE Mask(vol, lbl)
    IN  <<[label |-> lbl, mesh |-> contour(field, spc, org, threshold)]>>

\* the body of the loop of extract_label_meshes: the pairs one label contributes
LabelPairs(vol, lbl, spc, org, sg, n_iter, smooth_relax, threshold) ==
    LET mesh == extract_isosurface(Mask(vol, lbl), spc, org, threshold, sg, n_iter, smooth_relax)
    IN  IF mesh # None THEN <<[label |-> lbl, mesh |-> mesh[1]]>> ELSE <<>>

RECURSIVE extract_label_meshes(_, _, _, _, _, _, _, _)
extract_label_meshes(vol, labels, spc, org, sg, n_iter, smooth_relax, threshold) ==
    IF labels = <<>> THEN <<>>
    ELSE LabelPairs(vol, Head(labels), spc, org, sg, n_iter, smooth_relax, threshold)
         \o extract_label_meshes(vol, Tail(labels), spc, org, sg, n_iter, smooth_relax, threshold)

-----------------------------------------------------------------------------
(* The files the user can point the program at *)

NiftiPaths == {"a.nii", "b.nii", "bad.nii", "missing.nii"}

\* path.exists()
path_exists(p) == p # "missing.nii" /\ p # "none.csv"

\* what nibabel finds in the file: labels 5.0 (one voxel) and 2.0 (two voxels)
\* in a.nii, the nine labels 1.0 .. 9.0 in b.nii, an undecodable file bad.nii
NiftiFile(p) ==
    CASE p = "a.nii" -> [ok |-> TRUE, data |-> <<0, 5000, 0, 2000, 2000>>,
                         spacing |-> <<1000, 1000, 1000>>, origin |-> <<0, 0, 0>>]
      [] p = "b.nii" -> [ok |-> TRUE,
                         data |-> <<9000, 1000, 2000, 3000, 4000, 5000, 6000, 7000, 8000>>,
                         spacing |-> <<2000, 2000, 2000>>, origin |-> <<-5000, 0, 0>>]
      [] OTHER       -> [ok |-> FALSE, data |-> <<>>, spacing |-> <<>>, origin |-> <<>>]

\* load_nii_volume either raises or returns (data, spacing, origin)
load_nii_volume_raises(p) == ~NiftiFile(p).ok

load_nii_volume(p) == NiftiFile(p)

-----------------------------------------------------------------------------
(* gui/renderer.py: MeshRenderer over the plotter's scene *)

\* the camera before any view is set
InitCamera == [kind |-> "initial", position |-> None, focal |-> None, up |-> None,
               fitted |-> FALSE]

\* the default lighting of a new plotter: the library's light kit of five lights
LightKit == [i \in 1..5 |-> [light_type |-> "light kit", index |-> i]]

\* the interactor's scene; its render window exists as long as the widget does
InitScene == [actors |-> <<>>, lights |-> LightKit, parallel |-> FALSE,
              anti_aliasing |-> FALSE, camera |-> InitCamera, ren_win |-> <<"window">>]

\* _default_color that stays on the last palette entry past the end
_default_color_NoWrap(idx) == PALETTE[IF idx >= Len(PALETTE) THEN Len(PALETTE) ELSE idx + 1]

\* MeshRenderer._default_color
_default_color(idx) == PALETTE[(idx % Len(PALETTE)) + 1]

\* MeshRenderer._configure_projection
_configure_projection(sc, is_2d) ==
    IF is_2d THEN [sc EXCEPT !.parallel = TRUE, !.anti_aliasing = FALSE]
    ELSE [sc EXCEPT !.parallel = FALSE, !.anti_aliasing = TRUE]

\* plotter.clear(): every renderer drops its actors and its lights
plotter_clear(sc) == [sc EXCEPT !.actors = <<>>, !.lights = <<>>]

\* plotter.add_light
add_light(sc, light) == [sc EXCEPT !.lights = Append(@, light)]

\* pv.Light(position, color="white", light_type="scene light", intensity):
\* positions in halves, intensities in tenths
Light(position, intensity) ==
    [light_type |-> "scene light", color |-> "white", position |-> position,
     intensity |-> intensity]

\* the three-point lighting of _clear_and_setup_lights
ThreePointLights ==
    <<Light(<<2, 2, 2>>, 9), Light(<<-2, -1, 3>>, 7), Light(<<0, -3, -2>>, 5)>>

\* _clear_and_setup_lights that removes the actors and keeps the lights
_clear_and_setup_lights_KeepLights(sc) ==
    add_light(add_light(add_light([sc EXCEPT !.actors = <<>>],
        ThreePointLights[1]), ThreePointLights[2]), ThreePointLights[3])

\* _clear_and_setup_lights that removes the lights and keeps the actors
_clear_and_setup_lights_KeepActors(sc) ==
    add_light(add_light(add_light([sc EXCEPT !.lights = <<>>],
        ThreePointLights[1]), ThreePointLights[2]), ThreePointLights[3])

\* MeshRenderer._clear_and_setup_lights: plotter.clear(), then
\* plotter.renderer.lights.clear() on the list the lights property hands out
\* (a copy: the scene is not touched by it), then the three lights are added
_clear_and_setup_lights(sc) ==
    add_light(add_light(add_light(plotter_clear(sc),
        ThreePointLights[1]), ThreePointLights[2]), ThreePointLights[3])

\* _add_mesh that passes show_edges through in both styles
_add_mesh_EdgesIn2D(lbl, mesh, color, is_2d, edges) ==
    IF is_2d
    THEN [label |-> lbl, mesh |-> mesh, color |-> color, show_edges |-> edges,
          ambient |-> 100, diffuse |-> 10, specular |-> 0,
          lighting |-> FALSE, smooth_shading |-> FALSE]
    ELSE [label |-> lbl, mesh |-> mesh, color |-> color, show_edges |-> edges,
          ambient |-> 25, diffuse |-> 60, specular |-> 15,
          lighting |-> TRUE, smooth_shading |-> TRUE]

\* MeshRenderer._add_mesh: the actor added for one mesh (material in hundredths)
_add_mesh(lbl, mesh, color, is_2d, edges) ==
    IF is_2d
    THEN [label |-> lbl, mesh |-> mesh, color |-> color, show_edges |-> FALSE,
          ambient |-> 100, diffuse |-> 10, specular |-> 0,
          lighting |-> FALSE, smooth_shading |-> FALSE]
    ELSE [label |-> lbl, mesh |-> mesh, color |-> color, show_edges |-> edges,
          ambient |-> 25, diffuse |-> 60, specular |-> 15,
          lighting |-> TRUE, smooth_shading |-> TRUE]

\* plotter.bounds: (xmin, xmax, ymin, ymax, zmin, zmax) over the actors of the
\* scene, and the library's unit cube around the origin for an empty scene
plotter_bounds(sc) ==
    LET xs == UNION {sc.actors[i].mesh.points : i \in DOMAIN sc.actors}
        ys == {sc.actors[i].mesh.yz[1] : i \in DOMAIN sc.actors}
        zs == {sc.actors[i].mesh.yz[2] : i \in DOMAIN sc.actors}
    IN  IF xs = {} THEN <<-1000, 1000, -1000, 1000, -1000, 1000>>
        ELSE <<Min(xs), Max(xs), Min(ys), Max(ys), Min(zs), Max(zs)>>

\* plotter.view_isometric(): the library's isometric reset, no position assigned
view_isometric ==
    [kind |-> "view_isometric", position |-> None, focal |-> None, up |-> None,
     fitted |-> FALSE]

\* _set_view that treats an unknown view name as "left"
_set_view_DefaultLeft(bounds, vw) ==
    LET x_mid == (bounds[1] + bounds[2]) \div 2
        y_mid == (bounds[3] + bounds[4]) \div 2
        z_mid == (bounds[5] + bounds[6]) \div 2
        dist  == (Max({bounds[2] - bounds[1], bounds[4] - bounds[3],
                       bounds[6] - bounds[5], 1000}) * 18) \div 10
        at(position, up) == [kind |-> "camera_position", position |-> position,
                             focal |-> <<x_mid, y_mid, z_mid>>, up |-> up, fitted |-> FALSE]
    IN  CASE vw = "iso"   -> view_isometric
          [] vw = "right" -> at(<<x_mid + dist, y_mid, z_mid>>, <<0, 0, 1>>)
          [] vw = "top"   -> at(<<x_mid, y_mid, z_mid + dist>>, <<0, 1, 0>>)
          [] vw = "front" -> at(<<x_mid, y_mid - dist, z_mid>>, <<0, 0, 1>>)
          [] OTHER        -> at(<<x_mid - dist, y_mid, z_mid>>, <<0, 0, 1>>)

\* _set_view with the camera of "front" placed on the +Y side
_set_view_FrontBehind(bounds, vw) ==
    LET x_mid == (bounds[1] + bounds[2]) \div 2
        y_mid == (bounds[3] + bounds[4]) \div 2
        z_mid == (bounds[5] + bounds[6]) \div 2
        dist  == (Max({bounds[2] - bounds[1], bounds[4] - bounds[3],
                       bounds[6] - bounds[5], 1000}) * 18) \div 10
        at(position, up) == [kind |-> "camera_position", position |-> position,
                             focal |-> <<x_mid, y_mid, z_mid>>, up |-> up, fitted |-> FALSE]
    IN  CASE vw = "iso"   -> view_isometric
          [] vw = "left"  -> at(<<x_mid - dist, y_mid, z_mid>>, <<0, 0, 1>>)
          [] vw = "right" -> at(<<x_mid + dist, y_mid, z_mid>>, <<0, 0, 1>>)
          [] vw = "top"   -> at(<<x_mid, y_mid, z_mid + dist>>, <<0, 1, 0>>)
          [] vw = "front" -> at(<<x_mid, y_mid + dist, z_mid>>, <<0, 0, 1>>)
          [] OTHER        -> view_isometric

\* mesh_viz._set_view: the camera it leaves the plotter with, from plotter.bounds
\* (thousandths) and the view name
_set_view(bounds, vw) ==
    LET x_mid == (bounds[1] + bounds[2]) \div 2
        y_mid == (bounds[3] + bounds[4]) \div 2
        z_mid == (bounds[5] + bounds[6]) \div 2
        span  == Max({bounds[2] - bounds[1], bounds[4] - bounds[3],
                      bounds[6] - bounds[5], 1000})
        dist  == (span * 18) \div 10
        at(position, up) == [kind |-> "camera_position", position |-> position,
                             focal |-> <<x_mid, y_mid, z_mid>>, up |-> up, fitted |-> FALSE]
    IN  CASE vw = "iso"   -> view_isometric
          [] vw = "left"  -> at(<<x_mid - dist, y_mid, z_mid>>, <<0, 0, 1>>)
          [] vw = "right" -> at(<<x_mid + dist, y_mid, z_mid>>, <<0, 0, 1>>)
          [] vw = "top"   -> at(<<x_mid, y_mid, z_mid + dist>>, <<0, 1, 0>>)
          [] vw = "front" -> at(<<x_mid, y_mid - dist, z_mid>>, <<0, 0, 1>>)
          [] OTHER        -> view_isometric

\* plotter.reset_camera(): the camera keeps its direction and up vector and is
\* moved along the direction until the scene fits the window
reset_camera(sc) == [sc EXCEPT !.camera.fitted = TRUE]

\* MeshRenderer._apply_view
_apply_view(sc, vw) ==
    reset_camera([sc EXCEPT !.camera = _set_view(plotter_bounds(sc), vw)])

\* render_meshes that colours a mesh by its place among the meshes drawn
render_meshes_ByPlace(sc, label_meshes, colors, is_2d, edges, vw) ==
    LET cleared == _clear_and_setup_lights(_configure_projection(sc, is_2d))
        actor(idx) == _add_mesh(label_meshes[idx].label, label_meshes[idx].mesh,
                                _default_color(idx - 1), is_2d, edges)
    IN  _apply_view([cleared EXCEPT !.actors = @ \o [idx \in DOMAIN label_meshes |-> actor(idx)]], vw)

\* MeshRenderer.render_meshes
render_meshes(sc, label_meshes, colors, is_2d, edges, vw) ==
    LET cleared == _clear_and_setup_lights(_configure_projection(sc, is_2d))
        actor(idx) == _add_mesh(label_meshes[idx].label, label_meshes[idx].mesh,
                                DictGet(colors, label_meshes[idx].label, _default_color(idx - 1)),
                                is_2d, edges)
    IN  _apply_view([cleared EXCEPT !.actors = @ \o [idx \in DOMAIN label_meshes |-> actor(idx)]], vw)

\* MeshRenderer.reset_view
reset_view(sc, vw) ==
    IF sc.ren_win = None THEN sc
    ELSE reset_camera([sc EXCEPT !.camera = _set_view(plotter_bounds(sc), vw)])

\* what a call hands back: a value, or an exception that leaves the function
Returned(v) == [raised |-> FALSE, value |-> v]

Raised == [raised |-> TRUE, value |-> FALSE]

\* what plotter.screenshot(path) can do: write the file, or raise
WriteOutcomes == {"written", "raises"}

\* save_screenshot without the try/except around plotter.screenshot
save_screenshot_Unguarded(sc, path, write) ==
    IF sc.ren_win = None THEN Returned(FALSE)
    ELSE IF write = "written" THEN Returned(TRUE)
    ELSE Raised

\* MeshRenderer.save_screenshot
save_screenshot(sc, path, write) ==
    IF sc.ren_win = None THEN Returned(FALSE)
    ELSE IF write = "written" THEN Returned(TRUE)
    ELSE Returned(FALSE)

\* MeshRenderer.clear
renderer_clear(sc) == plotter_clear(sc)

-----------------------------------------------------------------------------
(* gui/widgets/label_list.py: LabelListPanel *)

\* _get_default_color without the wrap-around
_get_default_color_NoWrap(idx) == PALETTE[IF idx >= Len(PALETTE) THEN Len(PALETTE) ELSE idx + 1]

\* LabelListPanel._get_default_color
_get_default_color(idx) == PALETTE[(idx % Len(PALETTE)) + 1]

\* LabelListPanel.get_checked_labels
get_checked_labels(its) ==
    LET checkedIdx == {i \in DOMAIN its : its[i].checked}
        RECURSIVE collect(_)
        collect(i) == IF i > Len(its) THEN <<>>
                      ELSE (IF i \in checkedIdx THEN <<its[i].lbl>> ELSE <<>>) \o collect(i + 1)
    IN  collect(1)

\* LabelListPanel.populate_labels: the rows, all checked
populate_items(labels) == [i \in DOMAIN labels |-> [lbl |-> labels[i], checked |-> TRUE]]

\* LabelListPanel.populate_labels: label_colors cleared and refilled from the palette
populate_colors(labels) == [i \in DOMAIN labels |-> <<labels[i], _get_default_color(i - 1)>>]

\* LabelListPanel.select_all / clear_selection: setCheckState on every row
set_all_checked(its, c) == [i \in DOMAIN its |-> [its[i] EXCEPT !.checked = c]]

-----------------------------------------------------------------------------
(* The session state as one record, so that a handler is a function on it *)

St == [volume |-> volume, spacing |-> spacing, origin |-> origin, items |-> items,
       label_colors |-> label_colors, label_values |-> label_values,
       use_colormap |-> use_colormap, current_colormap |-> current_colormap,
       colormap_vmin |-> colormap_vmin, colormap_vmax |-> colormap_vmax,
       vmin_spin |-> vmin_spin, vmax_spin |-> vmax_spin,
       sigma |-> sigma, smooth_iter |-> smooth_iter, show_edges |-> show_edges,
       style |-> style, view |-> view, timers |-> timers, status |-> status,
       scene |-> scene, hist |-> hist, nev |-> nev]

Apply(S) ==
    /\ volume' = S.volume /\ spacing' = S.spacing /\ origin' = S.origin
    /\ items' = S.items /\ label_colors' = S.label_colors
    /\ label_values' = S.label_values /\ use_colormap' = S.use_colormap
    /\ current_colormap' = S.current_colormap
    /\ colormap_vmin' = S.colormap_vmin /\ colormap_vmax' = S.colormap_vmax
    /\ vmin_spin' = S.vmin_spin /\ vmax_spin' = S.vmax_spin
    /\ sigma' = S.sigma /\ smooth_iter' = S.smooth_iter /\ show_edges' = S.show_edges
    /\ style' = S.style /\ view' = S.view /\ timers' = S.timers /\ status' = S.status
    /\ scene' = S.scene /\ hist' = S.hist /\ nev' = S.nev

\* what a render pass reads
Inputs(S) ==
    [labels |-> get_checked_labels(S.items), sigma |-> S.sigma,
     smooth_iter |-> S.smooth_iter, is_2d |-> (S.style = "2D flat"),
     show_edges |-> S.show_edges, view |-> S.view, colors |-> S.label_colors]

NoInputs ==
    [labels |-> <<>>, sigma |-> 0, smooth_iter |-> 0, is_2d |-> FALSE,
     show_edges |-> FALSE, view |-> "", colors |-> <<>>]

(* History kept beside the program state:                                  *)
(*   renders       render passes executed so far                           *)
(*   pass          what the latest render pass read                        *)
(*   sinceEvent    ms since the latest render-triggering event (capped)    *)
(*   burstN        events of the current burst, 0 when there is none       *)
(*   burstRenders  render passes executed since the burst began            *)
(*   snap          the render inputs right after the burst's latest event  *)
(*   budget        user operations the session is explored for             *)
(*   extractions   calls of extract_label_meshes so far                    *)
(*   keep          how many render passes the log remembers                *)
(*   log           the latest passes since the volume was loaded: what     *)
(*                 each read and the (label, mesh, color) triples it drew  *)
InitHist == [renders |-> 0, pass |-> NoInputs, sinceEvent |-> RENDER_DEBOUNCE_MS,
             burstN |-> 0, burstRenders |-> 0, snap |-> NoInputs, budget |-> MaxEvents,
             extractions |-> 0, keep |-> 0, log |-> <<>>]

HistRender(S) ==
    [S EXCEPT !.hist = [@ EXCEPT !.renders = @ + 1, !.pass = Inputs(S),
                                 !.burstRenders = @ + 1]]

\* a render-triggering event has been handled (with a volume loaded)
HistTrigger(S0, S) ==
    IF S.volume = None THEN S
    ELSE LET goesOn == S0.hist.burstN > 0 /\ S0.hist.sinceEvent < RENDER_DEBOUNCE_MS
         IN  [S EXCEPT !.hist = [@ EXCEPT
                 !.sinceEvent = 0,
                 !.burstN = IF goesOn THEN @ + 1 ELSE 1,
                 !.burstRenders = IF goesOn THEN @ ELSE 0,
                 !.snap = Inputs(S)]]

\* an operation that is no render-triggering event ends the burst
HistOther(S) ==
    [S EXCEPT !.hist = [@ EXCEPT !.burstN = 0, !.burstRenders = 0, !.snap = NoInputs]]

HistExtract(S) == [S EXCEPT !.hist = [@ EXCEPT !.extractions = @ + 1]]

\* a render pass has ended
HistLog(S) ==
    LET entry == [labels |-> S.hist.pass.labels, sigma |-> S.hist.pass.sigma,
                  smooth_iter |-> S.hist.pass.smooth_iter,
                  drawn |-> [a \in DOMAIN S.scene.actors |->
                               <<S.scene.actors[a].label, S.scene.actors[a].mesh,
                                 S.scene.actors[a].color>>]]
        all == Append(S.hist.log, entry)
    IN  IF S.hist.keep = 0 THEN S
        ELSE [S EXCEPT !.hist.log =
                 IF Len(all) > S.hist.keep
                 THEN SubSeq(all, Len(all) - S.hist.keep + 1, Len(all)) ELSE all]

\* a volume has been loaded
HistLoaded(S) == [S EXCEPT !.hist.log = <<>>]

-----------------------------------------------------------------------------
(* gui/main_window.py: MeshGui *)

\* QTimer_start as a fresh single-shot callback per call, the old one left running
QTimer_start_Stacking(ts, ms) == Append(ts, ms)

\* QTimer.start(ms) on the single-shot _render_timer: a running timer is
\* stopped and started again, so one callback is outstanding
QTimer_start(ts, ms) == <<ms>>

\* MeshGui._set_status
_set_status(S, text) == [S EXCEPT !.status = text]

\* _schedule_render without the "no volume" guard
_schedule_render_NoGuard(S) == [S EXCEPT !.timers = <<RENDER_DEBOUNCE_MS>>]

\* _schedule_render that leaves a running timer alone (throttle, not debounce)
_schedule_render_NoRestart(S) ==
    IF S.volume = None THEN S
    ELSE IF S.timers # <<>> THEN S
    ELSE [S EXCEPT !.timers = <<RENDER_DEBOUNCE_MS>>]

\* MeshGui._schedule_render
_schedule_render(S) ==
    IF S.volume = None THEN S
    ELSE [S EXCEPT !.timers = QTimer_start(@, RENDER_DEBOUNCE_MS)]

\* _render_scene that leaves the scene alone when there is nothing to draw
_render_scene_KeepScene(S) ==
    IF S.volume = None THEN _set_status(S, "Load a NIfTI first.")
    ELSE
      LET labels == get_checked_labels(S.items)
          P == HistRender(S)
          E == HistExtract(P)
          label_meshes == extract_label_meshes(S.volume, labels, S.spacing, S.origin,
                                               S.sigma, S.smooth_iter, 100, 500)
      IN  HistLog(
          IF labels = <<>> THEN _set_status(P, "No labels selected.")
          ELSE IF label_meshes = <<>>
          THEN _set_status(E, "No meshes extracted with current settings.")
          ELSE _set_status(
                 [E EXCEPT !.scene = render_meshes(@, label_meshes, S.label_colors,
                                                   S.style = "2D flat", S.show_edges, S.view)],
                 "Rendered " \o ToString(Len(label_meshes)) \o " meshes."))

\* MeshGui._render_scene
_render_scene(S) ==
    IF S.volume = None THEN _set_status(S, "Load a NIfTI first.")
    ELSE
      LET labels == get_checked_labels(S.items)
          P == HistRender(S)
          E == HistExtract(P)
          label_meshes == extract_label_meshes(S.volume, labels, S.spacing, S.origin,
                                               S.sigma, S.smooth_iter, 100, 500)
      IN  HistLog(
          IF labels = <<>>
          THEN _set_status([P EXCEPT !.scene = renderer_clear(@)], "No labels selected.")
          ELSE IF label_meshes = <<>>
          THEN _set_status([E EXCEPT !.scene = renderer_clear(@)],
                           "No meshes extracted with current settings.")
          ELSE _set_status(
                 [E EXCEPT !.scene = render_meshes(@, label_meshes, S.label_colors,
                                                   S.style = "2D flat", S.show_edges, S.view)],
                 "Rendered " \o ToString(Len(label_meshes)) \o " meshes."))

\* labels = sorted({float(v) for v in self.volume.flatten() if v != 0})
UniqueLabels(data) == SortedSeq(Range(data) \ {0})

\* _load_volume that drops the current volume and labels before decoding
_load_volume_ClearFirst(S, path) ==
    IF ~path_exists(path) THEN _set_status(S, "File not found: " \o path)
    ELSE IF load_nii_volume_raises(path)
    THEN _set_status([S EXCEPT !.volume = None, !.spacing = None, !.origin = None,
                               !.items = <<>>, !.label_colors = <<>>],
                     "Failed to load: " \o path)
    ELSE LET f == load_nii_volume(path)
             labels == SortedSeq(Range(f.data) \ {0})
         IN  _render_scene([S EXCEPT !.volume = f.data, !.spacing = f.spacing,
                                     !.origin = f.origin, !.items = populate_items(labels),
                                     !.label_colors = populate_colors(labels)])

\* _load_volume that defers its render to the timer
_load_volume_Deferred(S, path) ==
    IF ~path_exists(path) THEN _set_status(S, "File not found: " \o path)
    ELSE IF load_nii_volume_raises(path) THEN _set_status(S, "Failed to load: " \o path)
    ELSE LET f == load_nii_volume(path)
             labels == SortedSeq(Range(f.data) \ {0})
         IN  _schedule_render([S EXCEPT !.volume = f.data, !.spacing = f.spacing,
                                        !.origin = f.origin, !.items = populate_items(labels),
                                        !.label_colors = populate_colors(labels)])

\* MeshGui._load_volume
_load_volume(S, path) ==
    IF ~path_exists(path) THEN _set_status(S, "File not found: " \o path)
    ELSE IF load_nii_volume_raises(path) THEN _set_status(S, "Failed to load: " \o path)
    ELSE
      LET f == load_nii_volume(path)
          labels == UniqueLabels(f.data)
          S1 == [S EXCEPT !.volume = f.data, !.spacing = f.spacing, !.origin = f.origin,
                          !.items = populate_items(labels),
                          !.label_colors = populate_colors(labels)]
          S2 == _set_status(S1, "Loaded " \o path \o "; found "
                                \o ToString(Len(labels)) \o " labels.")
      IN  _render_scene(HistLoaded(S2))

\* MeshGui._on_color_change
\* _on_color_change that reports the colour and schedules nothing
_on_color_change_NoSchedule(S, labels, color_hex) ==
    _set_status(S, "Set color " \o color_hex \o " for " \o ToString(Len(labels)) \o " ROI(s).")

\* MeshGui._on_color_change
_on_color_change(S, labels, color_hex) ==
    _set_status(_schedule_render(S),
                "Set color " \o color_hex \o " for " \o ToString(Len(labels)) \o " ROI(s).")

RECURSIVE SetColors(_, _, _)
\* for lbl in highlighted: self.label_colors[lbl] = color_hex
SetColors(d, labels, color_hex) ==
    IF labels = <<>> THEN d
    ELSE SetColors(DictSet(d, Head(labels), color_hex), Tail(labels), color_hex)

\* LabelListPanel._choose_color: highlighted rows, and the colour picked in the
\* dialog ("" when the dialog is cancelled)
_choose_color(S, highlighted, color_hex) ==
    IF highlighted = <<>> THEN S
    ELSE IF color_hex = "" THEN S
    ELSE _on_color_change([S EXCEPT !.label_colors = SetColors(@, highlighted, color_hex)],
                          highlighted, color_hex)

-----------------------------------------------------------------------------
(* gui/widgets/colormap_panel.py: ColormapPanel, and its callbacks in MeshGui *)

ValuePaths == {"vals.csv", "fine.csv", "messy.csv", "junk.csv", "none.csv"}

\* the rows csv.reader yields: the first row (None for an empty file), the rest
ValueFile(p) ==
    CASE p = "vals.csv"  -> [header |-> << <<"label", "value">> >>,
                             rows |-> << <<"2", "0.2">>, <<"1", "0.8">> >>]
      [] p = "fine.csv"  -> [header |-> << <<"id", "weight">> >>,
                             rows |-> << <<"2", "0.204">>, <<"5", "0.8">> >>]
      [] p = "messy.csv" -> [header |-> << <<"1", "0.5">> >>,
                             rows |-> << <<"2">>, <<"abc", "0.3">>, <<"5", "0.5">> >>]
      [] OTHER           -> [header |-> << <<"roi", "score">> >>,
                             rows |-> << <<"abc", "x">>, <<>> >>]

\* float(text) for the texts of the files, in thousandths; other texts raise
FloatTable ==
    ("1" :> 1000) @@ ("2" :> 2000) @@ ("5" :> 5000) @@
    ("0.2" :> 200) @@ ("0.204" :> 204) @@ ("0.3" :> 300) @@ ("0.5" :> 500) @@
    ("0.8" :> 800)

float_ok(text) == text \in DOMAIN FloatTable

\* h.lower().strip() for the texts of the files
LowerStrip(h) ==
    CASE h = "ID" -> "id" [] h = " Score" -> "score" [] OTHER -> h

\* the column (from 1) the header names, the last match winning, else the default
DetectCol(header, aliases, default) ==
    LET hits == {i \in DOMAIN header : LowerStrip(header[i]) \in aliases}
    IN  IF hits = {} THEN default ELSE Max(hits)

\* one row parsed: None when float() raises ValueError or IndexError
ParseRow(row, label_col, value_col) ==
    IF label_col > Len(row) \/ value_col > Len(row) THEN None
    ELSE IF ~float_ok(row[label_col]) \/ ~float_ok(row[value_col]) THEN None
    ELSE << <<FloatTable[row[label_col]], FloatTable[row[value_col]]>> >>

RECURSIVE ParseRows(_, _, _, _)
ParseRows(d, rows, label_col, value_col) ==
    IF rows = <<>> THEN d
    ELSE LET row == Head(rows)
             e == IF Len(row) < 2 THEN None ELSE ParseRow(row, label_col, value_col)
         IN  ParseRows(DictUpdate(d, e), Tail(rows), label_col, value_col)

\* ParseValues that always takes the first row for a header
ParseValues_HeaderNeverData(f) ==
    IF f.header = None THEN ParseRows(<<>>, f.rows, 1, 2)
    ELSE LET header == f.header[1]
             label_col == DetectCol(header, {"label", "roi", "region", "id", "index"}, 1)
             value_col == DetectCol(header, {"value", "score", "overlap", "weight", "magnitude"}, 2)
         IN  ParseRows(<<>>, f.rows, label_col, value_col)

\* the table ColormapPanel._load_values reads from a file
ParseValues(f) ==
    IF f.header = None THEN ParseRows(<<>>, f.rows, 1, 2)
    ELSE LET header == f.header[1]
             label_col == DetectCol(header, {"label", "roi", "region", "id", "index"}, 1)
             value_col == DetectCol(header, {"value", "score", "overlap", "weight", "magnitude"}, 2)
         IN  ParseRows(DictUpdate(<<>>, ParseRow(header, label_col, value_col)),
                       f.rows, label_col, value_col)

\* ColormapPanel.get_color_for_value: Normalize(vmin, vmax) then the colormap's
\* 256-entry table, under/over mapped to its ends (ranges have vmin <= vmax)
get_color_for_value(S, value) ==
    LET vmin == IF S.colormap_vmin # None THEN S.colormap_vmin[1] ELSE 0
        vmax == IF S.colormap_vmax # None THEN S.colormap_vmax[1] ELSE 1000
        x    == IF vmin = vmax THEN 0 ELSE ((value - vmin) * 1000) \div (vmax - vmin)
        i    == (x * 256) \div 1000
        idx  == IF i < 0 THEN 0 ELSE IF i > 255 THEN 255 ELSE i
    IN  S.current_colormap \o "[" \o ToString(idx) \o "]"

RECURSIVE compute_colors_GrayDefault(_, _)
\* compute_colors that gives a label without a value the neutral gray
compute_colors_GrayDefault(S, labels) ==
    IF labels = <<>> THEN <<>>
    ELSE << <<Head(labels),
              IF HasKey(S.label_values, Head(labels))
              THEN get_color_for_value(S, DictGet(S.label_values, Head(labels), 0))
              ELSE NEUTRAL_COLOR>> >> \o compute_colors_GrayDefault(S, Tail(labels))

RECURSIVE compute_colors(_, _)
\* ColormapPanel.compute_colors
compute_colors(S, labels) ==
    IF labels = <<>> THEN <<>>
    ELSE (IF HasKey(S.label_values, Head(labels))
          THEN << <<Head(labels), get_color_for_value(S, DictGet(S.label_values, Head(labels), 0))>> >>
          ELSE <<>>) \o compute_colors(S, Tail(labels))

\* set_label_colors that replaces the dict instead of updating it
set_label_colors_Replace(S, colors) == [S EXCEPT !.label_colors = colors]

\* LabelListPanel.set_label_colors
set_label_colors(S, colors) == [S EXCEPT !.label_colors = DictUpdate(@, colors)]

\* _update_colors_from_colormap whose palette branch leaves the colours alone
_update_colors_from_colormap_NoReset(S) ==
    IF ~S.use_colormap THEN S
    ELSE set_label_colors(S, compute_colors(S, Keys(S.label_colors)))

\* _update_colors_from_colormap that goes back to the palette before it applies
\* the colormap colours
_update_colors_from_colormap_PaletteFirst(S) ==
    LET P == [S EXCEPT !.label_colors =
                 [idx \in DOMAIN @ |-> <<@[idx][1], PALETTE[((idx - 1) % Len(PALETTE)) + 1]>>]]
    IN  IF ~S.use_colormap THEN P
        ELSE set_label_colors(P, compute_colors(P, Keys(P.label_colors)))

\* MeshGui._update_colors_from_colormap
_update_colors_from_colormap(S) ==
    IF ~S.use_colormap
    THEN [S EXCEPT !.label_colors =
             [idx \in DOMAIN @ |-> <<@[idx][1], PALETTE[((idx - 1) % Len(PALETTE)) + 1]>>]]
    ELSE set_label_colors(S, compute_colors(S, Keys(S.label_colors)))

\* _on_colormap_changed that recolours but schedules no render
_on_colormap_changed_NoSchedule(S) == _update_colors_from_colormap(S)

\* MeshGui._on_colormap_changed
_on_colormap_changed(S) == _schedule_render(_update_colors_from_colormap(S))

\* ColormapPanel._emit_colormap_changed
_emit_colormap_changed(S) == _on_colormap_changed(S)

\* ColormapPanel._on_colormap_toggle
_on_colormap_toggle(S, checked) == _emit_colormap_changed([S EXCEPT !.use_colormap = checked])

\* use_cmap_chk.setChecked: stateChanged only when the state changes
use_cmap_chk_setChecked(S, checked) ==
    IF S.use_colormap = checked THEN S ELSE _on_colormap_toggle(S, checked)

\* ColormapPanel._on_colormap_selection_changed
_on_colormap_selection_changed(S, cmap_name) ==
    LET S1 == [S EXCEPT !.current_colormap = cmap_name]
    IN  IF S1.use_colormap THEN _emit_colormap_changed(S1) ELSE S1

\* _on_range_changed that reports the change whatever the mode
_on_range_changed_AlwaysEmit(S) ==
    _emit_colormap_changed(
        [S EXCEPT !.colormap_vmin = <<S.vmin_spin>>, !.colormap_vmax = <<S.vmax_spin>>])

\* ColormapPanel._on_range_changed
_on_range_changed(S) ==
    LET S1 == [S EXCEPT !.colormap_vmin = <<S.vmin_spin>>, !.colormap_vmax = <<S.vmax_spin>>]
    IN  IF S1.use_colormap THEN _emit_colormap_changed(S1) ELSE S1

\* vmin_spin.setValue / vmax_spin.setValue: valueChanged only when the value changes
vmin_spin_setValue(S, v) ==
    IF S.vmin_spin = v THEN S ELSE _on_range_changed([S EXCEPT !.vmin_spin = v])

vmax_spin_setValue(S, v) ==
    IF S.vmax_spin = v THEN S ELSE _on_range_changed([S EXCEPT !.vmax_spin = v])

\* what a QDoubleSpinBox with setDecimals(3) and setRange(-1e6, 1e6) keeps of a
\* value given in twentieths of a thousandth: the nearest thousandth, within the
\* range (a value exactly halfway goes the way its double prints; the tables of
\* the model have none)
QDoubleSpinBox_value(x20) ==
    LET r == (x20 + 10) \div 20
    IN  IF r < -1000000000 THEN -1000000000 ELSE IF r > 1000000000 THEN 1000000000 ELSE r

\* auto_range with a margin of 0.1 whatever the span
auto_range_FixedMargin(S) ==
    IF S.label_values = <<>> THEN S
    ELSE LET values == {S.label_values[i][2] : i \in DOMAIN S.label_values}
         IN  vmax_spin_setValue(vmin_spin_setValue(S, Min(values) - 100), Max(values) + 100)

\* ColormapPanel.auto_range; margin20 is the margin in twentieths of a thousandth
auto_range(S) ==
    IF S.label_values = <<>> THEN S
    ELSE LET values == {S.label_values[i][2] : i \in DOMAIN S.label_values}
             vmin == Min(values)
             vmax == Max(values)
             margin20 == IF vmax > vmin THEN vmax - vmin ELSE 2000
         IN  vmax_spin_setValue(
                 vmin_spin_setValue(S, QDoubleSpinBox_value(20 * vmin - margin20)),
                 QDoubleSpinBox_value(20 * vmax + margin20))

\* MeshGui._on_values_loaded (set_label_values only redraws the rows)
_on_values_loaded(S, values) ==
    _schedule_render(
        _set_status(_update_colors_from_colormap(S),
                    "Loaded " \o ToString(Len(values)) \o " ROI values."))

\* ColormapPanel._load_values
_load_values(S, path) ==
    IF ~path_exists(path) THEN S
    ELSE LET S1 == [S EXCEPT !.label_values = ParseValues(ValueFile(path))]
         IN  IF S1.label_values = <<>> THEN S1
             ELSE _on_values_loaded(auto_range(S1), S1.label_values)

\* MeshGui._on_values_cleared
_on_values_cleared(S) ==
    LET checked == get_checked_labels(S.items)
        recolored == DictUpdate(S.label_colors,
                        [i \in DOMAIN checked |->
                            <<checked[i], PALETTE[((i - 1) % Len(PALETTE)) + 1]>>])
    IN  _schedule_render(_set_status([S EXCEPT !.label_colors = recolored],
                                     "ROI values cleared."))

\* ColormapPanel._clear_values
_clear_values(S) ==
    _on_values_cleared(use_cmap_chk_setChecked([S EXCEPT !.label_values = <<>>], FALSE))

\* _reset_view that also asks for a render, as the other parameters do
_reset_view_Rerender(S) == _schedule_render([S EXCEPT !.scene = reset_view(@, S.view)])

\* MeshGui._on_view_changed -> MeshGui._reset_view
_reset_view(S) == [S EXCEPT !.scene = reset_view(@, S.view)]

\* MeshGui._save_screenshot: the path of the dialog ("" when cancelled) and
\* what plotter.screenshot does with it; an exception of save_screenshot
\* would leave the handler before a status is set
_save_screenshot(S, path, write) ==
    IF S.scene.ren_win = None THEN _set_status(S, "Nothing to capture. Render first.")
    ELSE IF path = "" THEN S
    ELSE LET r == save_screenshot(S.scene, path, write)
         IN  IF r.raised THEN S
             ELSE IF r.value THEN _set_status(S, "Saved screenshot: " \o path)
             ELSE _set_status(S, "Failed to save screenshot.")

-----------------------------------------------------------------------------
(* The session: construction, then user operations, the clock and the timer *)

\* values the user gives the widgets
SigmaValues == {0, 400, 800}

SmoothValues == {0, 30}

Styles == {"3D shading", "2D flat"}

Views == {"left", "right", "top", "front", "iso"}

CmapChoices == {"viridis", "plasma"}

VminChoices == {0, -1000}

VmaxChoices == {1000, 2000}

UserColors == {"#000000", ""}

\* the rows the user can have highlighted: none, one, or all of them
HighlightChoices == {<<>>} \cup {<<items[i].lbl>> : i \in DOMAIN items}
                    \cup {[i \in DOMAIN items |-> items[i].lbl]}

\* ms the clock advances in one step
ElapseSteps == {40}

ExIdle == [pc |-> "idle", V |-> <<>>, L |-> <<>>, sigma |-> 0, threshold |-> 0,
           smooth_iter |-> 0, out |-> <<>>]

\* MeshGui.__init__ and the panels' constructors
InitPanels ==
    /\ volume = None /\ spacing = None /\ origin = None
    /\ items = <<>> /\ label_colors = <<>> /\ label_values = <<>>
    /\ use_colormap = FALSE /\ current_colormap = "viridis"
    /\ colormap_vmin = None /\ colormap_vmax = None
    /\ vmin_spin = 0 /\ vmax_spin = 1000
    /\ sigma = DEFAULT_SIGMA /\ smooth_iter = DEFAULT_SMOOTH_ITER
    /\ show_edges = FALSE /\ style = "3D shading" /\ view = "left"
    /\ timers = <<>>
    /\ status = "Load a NIfTI to begin."
    /\ scene = InitScene
    /\ nev = 0

InitGui == InitPanels /\ hist = InitHist

Init == InitGui /\ ex = ExIdle

\* a user operation has been handled; kind says what it is to the burst history
Done(S, kind) ==
    /\ nev < hist.budget
    /\ Apply([(CASE kind = "trigger" -> HistTrigger(St, S)
                 [] kind = "other"   -> HistOther(S)
                 [] OTHER            -> S) EXCEPT !.nev = @ + 1])
    /\ UNCHANGED ex

\* "Load NIfTI" on a path
LoadVolume ==
    \E path \in NiftiPaths :
        Done(_load_volume(St, path),
             IF path_exists(path) /\ ~load_nii_volume_raises(path) THEN "other" ELSE "none")

RECURSIVE Times(_, _)
\* _schedule_render called once per itemChanged signal
Times(S, n) == IF n = 0 THEN S ELSE Times(_schedule_render(S), n - 1)

\* the rows on which setCheckState emits itemChanged
Changed(its, new) == {i \in DOMAIN its : its[i].checked # new[i].checked}

\* the user clicks the check box of a row
ItemChecked ==
    \E i \in DOMAIN items :
        Done(_schedule_render([St EXCEPT !.items[i].checked = ~@]), "trigger")

\* LabelListPanel.select_all
select_all ==
    LET new == set_all_checked(items, TRUE)
    IN  /\ Changed(items, new) # {}
        /\ Done(Times([St EXCEPT !.items = new], Cardinality(Changed(items, new))), "trigger")

\* LabelListPanel.clear_selection
clear_selection ==
    LET new == set_all_checked(items, FALSE)
    IN  /\ Changed(items, new) # {}
        /\ Done(Times([St EXCEPT !.items = new], Cardinality(Changed(items, new))), "trigger")

\* RenderParamsPanel._on_change from sigma_spin
SigmaChanged ==
    \E v \in SigmaValues \ {sigma} : Done(_schedule_render([St EXCEPT !.sigma = v]), "trigger")

\* RenderParamsPanel._on_change from smooth_spin
SmoothIterChanged ==
    \E v \in SmoothValues \ {smooth_iter} :
        Done(_schedule_render([St EXCEPT !.smooth_iter = v]), "trigger")

\* RenderParamsPanel._on_change from edges_chk
EdgesChanged == Done(_schedule_render([St EXCEPT !.show_edges = ~@]), "trigger")

\* RenderParamsPanel._on_change from style_combo
StyleChanged ==
    \E v \in Styles \ {style} : Done(_schedule_render([St EXCEPT !.style = v]), "trigger")

\* RenderParamsPanel._on_view_change -> MeshGui._on_view_changed
ViewChanged ==
    \E v \in Views \ {view} : Done(_reset_view([St EXCEPT !.view = v]), "other")

\* the "Reset view" button
ResetView == Done(_reset_view(St), "none")

\* the "Set color" button
ChooseColor ==
    \E h \in HighlightChoices, c \in UserColors :
        Done(_choose_color(St, h, c), IF h # <<>> /\ c # "" THEN "trigger" ELSE "none")

\* the "Load" button of the colormap panel, on a path
LoadValues ==
    \E path \in ValuePaths :
        Done(_load_values(St, path),
             IF path_exists(path) /\ ParseValues(ValueFile(path)) # <<>> THEN "trigger" ELSE "none")

\* the "Clear" button of the colormap panel
ClearValues == Done(_clear_values(St), "trigger")

\* the user clicks "Use colormap"
ColormapToggled == Done(_on_colormap_toggle(St, ~use_colormap), "trigger")

\* the user picks another colormap
ColormapSelected ==
    \E name \in CmapChoices \ {current_colormap} :
        Done(_on_colormap_selection_changed(St, name),
             IF use_colormap THEN "trigger" ELSE "none")

\* the user edits a range spin box
RangeEdited ==
    \/ \E v \in VminChoices \ {vmin_spin} :
          Done(vmin_spin_setValue(St, v), IF use_colormap THEN "trigger" ELSE "none")
    \/ \E v \in VmaxChoices \ {vmax_spin} :
          Done(vmax_spin_setValue(St, v), IF use_colormap THEN "trigger" ELSE "none")

\* the "Auto" button
AutoRange ==
    Done(auto_range(St),
         IF use_colormap /\ auto_range(St) # St THEN "trigger" ELSE "none")

\* the "Save screenshot" button
ShotPaths == {"", "shot.png"}

SaveScreenshot ==
    \E path \in ShotPaths, write \in WriteOutcomes :
        Done(_save_screenshot(St, path, write), "none")

\* time passes while no callback is due
Elapse ==
    \E d \in ElapseSteps :
        /\ timers # <<>>
        /\ \A i \in DOMAIN timers : timers[i] >= d
        /\ timers' = [i \in DOMAIN timers |-> timers[i] - d]
        /\ hist' = [hist EXCEPT !.sinceEvent =
                       IF @ + d > RENDER_DEBOUNCE_MS THEN RENDER_DEBOUNCE_MS ELSE @ + d]
        /\ UNCHANGED <<volume, spacing, origin, items, label_colors, label_values,
                       use_colormap, current_colormap, colormap_vmin, colormap_vmax,
                       vmin_spin, vmax_spin, sigma, smooth_iter, show_edges, style,
                       view, status, scene, nev, ex>>

\* Timeout of a timer that is not single-shot: it runs and stays armed
Timeout_Repeating ==
    \E i \in DOMAIN timers :
        /\ timers[i] = 0
        /\ Apply(_render_scene([St EXCEPT !.timers[i] = RENDER_DEBOUNCE_MS]))
        /\ UNCHANGED ex

\* _render_timer.timeout -> _render_scene: a due single-shot callback runs once
Timeout ==
    \E i \in DOMAIN timers :
        /\ timers[i] = 0
        /\ Apply(_render_scene(
              [St EXCEPT !.timers = SubSeq(timers, 1, i - 1) \o SubSeq(timers, i + 1, Len(timers))]))
        /\ UNCHANGED ex

UserOp ==
    \/ LoadVolume \/ ItemChecked \/ select_all \/ clear_selection
    \/ SigmaChanged \/ SmoothIterChanged \/ EdgesChanged \/ StyleChanged
    \/ ViewChanged \/ ResetView \/ ChooseColor
    \/ LoadValues \/ ClearValues \/ ColormapToggled \/ ColormapSelected
    \/ RangeEdited \/ AutoRange \/ SaveScreenshot

Next == UserOp \/ Elapse \/ Timeout

Spec == Init /\ [][Next]_vars

-----------------------------------------------------------------------------
(* A session in which the user works the colour controls only: volume and      *)
(* value files, check boxes, "Set color", and the colormap panel               *)

\* user operations explored per colour session
MaxColorEvents == 4

InitColor ==
    /\ InitPanels
    /\ hist = [InitHist EXCEPT !.budget = MaxColorEvents]
    /\ ex = ExIdle

ColorOp ==
    \/ LoadVolume \/ ItemChecked \/ ChooseColor
    \/ LoadValues \/ ClearValues \/ ColormapToggled \/ ColormapSelected
    \/ RangeEdited \/ AutoRange

NextColor == ColorOp \/ Elapse \/ Timeout

SpecColor == InitColor /\ [][NextColor]_vars

-----------------------------------------------------------------------------
(* The session restricted to loading, checking and the blur, explored for   *)
(* one more operation, with the latest three render passes remembered       *)

MaxSelectEvents == 4

PassesKept == 3

InitSelect ==
    /\ InitPanels
    /\ hist = [InitHist EXCEPT !.budget = MaxSelectEvents, !.keep = PassesKept]
    /\ ex = ExIdle

SelectOp == LoadVolume \/ ItemChecked \/ select_all \/ clear_selection \/ SigmaChanged

NextSelect == SelectOp \/ Elapse \/ Timeout

SpecSelect == InitSelect /\ [][NextSelect]_vars

-----------------------------------------------------------------------------
(* One call of extract_label_meshes on arbitrary arguments *)

\* labels passed in one call
MaxLabels == 3

ExVolumes == {<<0, 5000, 0, 2000, 2000>>, <<1000, 1000, 0, 0>>, <<0, 0, 7000, 0, 0>>}

ExLabels == {0, 1000, 2000, 5000, 7000}

ExThresholds == {0, 300, 500}

ExSpacing == <<1000, 1000, 1000>>

ExOrigin == <<0, 0, 0>>

SeqsUpTo(S, n) == UNION {[1..k -> S] : k \in 0..n}

InitExtract ==
    /\ InitGui
    /\ ex \in {[pc |-> "call", V |-> V, L |-> L, sigma |-> sg, threshold |-> th,
                smooth_iter |-> it, out |-> <<>>] :
                  V \in ExVolumes, L \in SeqsUpTo(ExLabels, MaxLabels),
                  sg \in SigmaValues, th \in ExThresholds, it \in SmoothValues}

ExtractCall ==
    /\ ex.pc = "call"
    /\ ex' = [ex EXCEPT !.pc = "done",
                        !.out = extract_label_meshes(ex.V, ex.L, ExSpacing, ExOrigin, ex.sigma,
                                                     ex.smooth_iter, 100, ex.threshold)]
    /\ UNCHANGED guiVars

NextExtract == ExtractCall

SpecExtract == InitExtract /\ [][NextExtract]_vars

-----------------------------------------------------------------------------
(* Claims about the extractor *)

RECURSIVE IsSubseq(_, _)
\* a is b with some positions left out
IsSubseq(a, b) ==
    \/ a = <<>>
    \/ /\ b # <<>>
       /\ \/ Head(a) = Head(b) /\ IsSubseq(Tail(a), Tail(b))
          \/ IsSubseq(a, Tail(b))

OutLabels == [i \in DOMAIN ex.out |-> ex.out[i].label]

\* C7: extract_label_meshes returns pairs whose labels are a subsequence of the
\* labels asked for (only those labels, same relative order, at most one pair per
\* input position), and no returned mesh has zero points.
C7_SubsequenceNoEmptyMesh ==
    ex.pc = "done" =>
        /\ IsSubseq(OutLabels, ex.L)
        /\ \A i \in DOMAIN ex.out : n_points(ex.out[i].mesh) > 0

\* a call that kept one label and dropped another, with pre-smoothing on
C7_Witness ==
    /\ ex.pc = "done" /\ ex.sigma > 0
    /\ ex.L = <<5000, 2000, 5000>> /\ OutLabels = <<2000>>

\* C8: a requested label matching no voxel is left out of the output for every
\* sigma, threshold and smooth_iter, and the output is what the call returns for
\* the same request without that label.
C8_AbsentLabelOmitted ==
    ex.pc = "done" =>
        \A l \in Range(ex.L) \ Range(ex.V) :
            /\ l \notin Range(OutLabels)
            /\ ex.out = extract_label_meshes(ex.V, Filter(ex.L, Range(ex.L) \ {l}), ExSpacing,
                                             ExOrigin, ex.sigma, ex.smooth_iter, 100, ex.threshold)

\* a call asking for an absent label between two present ones
C8_Witness ==
    /\ ex.pc = "done" /\ ex.V = <<1000, 1000, 0, 0>>
    /\ ex.L = <<1000, 7000, 0>> /\ OutLabels = <<1000, 0>>

-----------------------------------------------------------------------------
(* One call of _set_view on arbitrary scene bounds and view names *)

\* (min, max) of the scene along one axis, in thousandths
ViewExtentsX == {<<0, 0>>, <<-2000, 4000>>, <<1000, 3000>>}

ViewExtentsY == {<<0, 0>>, <<0, 10000>>, <<-500, 500>>}

ViewExtentsZ == {<<0, 0>>, <<2000, 8000>>, <<-1000, 0>>}

ViewBounds == {<<x[1], x[2], y[1], y[2], z[1], z[2]>> :
                  x \in ViewExtentsX, y \in ViewExtentsY, z \in ViewExtentsZ}

\* the presets, and two names that are none of them
ViewNames == Views \cup {"back", ""}

InitView ==
    /\ InitGui
    /\ ex \in {[pc |-> "call", bounds |-> b, view |-> vw, out |-> InitCamera] :
                  b \in ViewBounds, vw \in ViewNames}

SetViewCall ==
    /\ ex.pc = "call"
    /\ ex' = [ex EXCEPT !.pc = "done", !.out = _set_view(ex.bounds, ex.view)]
    /\ UNCHANGED guiVars

NextView == SetViewCall

SpecView == InitView /\ [][NextView]_vars

-----------------------------------------------------------------------------
(* Claims about the view presets *)

PositionedViews == {"left", "right", "top", "front"}

\* the axis a preset looks along, and its up vector
ViewAxis(vw) ==
    CASE vw = "left"  -> [side |-> <<-1, 0, 0>>, up |-> <<0, 0, 1>>]
      [] vw = "right" -> [side |-> <<1, 0, 0>>,  up |-> <<0, 0, 1>>]
      [] vw = "top"   -> [side |-> <<0, 0, 1>>,  up |-> <<0, 1, 0>>]
      [] vw = "front" -> [side |-> <<0, -1, 0>>, up |-> <<0, 0, 1>>]

\* C18: for bounds (xmin, xmax, ymin, ymax, zmin, zmax) with midpoint c and
\* d = 1.8 * max(width, height, depth, 1.0), _set_view puts the camera at c - (d,0,0)
\* for left, c + (d,0,0) for right, c + (0,0,d) for top and c - (0,d,0) for front,
\* with up +Z, +Z, +Y and +Z, and the focal point at c in all four cases.
C18_PresetCamera ==
    (ex.pc = "done" /\ ex.view \in PositionedViews) =>
        LET b == ex.bounds
            widest == Max({b[2] - b[1], b[4] - b[3], b[6] - b[5], 1000})
            a == ViewAxis(ex.view)
        IN  /\ ex.out.kind = "camera_position"
            /\ \A k \in 1..3 : 2 * ex.out.focal[k] = b[2 * k - 1] + b[2 * k]
            /\ \A k \in 1..3 :
                  10 * (ex.out.position[k] - ex.out.focal[k]) = 18 * widest * a.side[k]
            /\ ex.out.up = a.up

\* "front" on a scene that is deepest along y: the camera is 18 in front of it
C18_Witness ==
    /\ ex.pc = "done" /\ ex.view = "front"
    /\ ex.bounds = <<-2000, 4000, 0, 10000, 2000, 8000>>
    /\ ex.out.position = <<1000, -13000, 5000>> /\ ex.out.focal = <<1000, 5000, 5000>>

\* C19: for "iso" and for every view name that is none of left, right, top and
\* front, _set_view calls the library's isometric reset and assigns no camera
\* position, and its outcome is the same for all scene bounds.
C19_IsometricFallback ==
    (ex.pc = "done" /\ ex.view \notin PositionedViews) =>
        /\ ex.out = view_isometric
        /\ ex.out.position = None
        /\ \A b \in ViewBounds : _set_view(b, ex.view) = ex.out

\* an unknown view name on a scene that has an extent
C19_Witness ==
    /\ ex.pc = "done" /\ ex.view = "back"
    /\ ex.bounds = <<-2000, 4000, 0, 10000, 2000, 8000>>
    /\ ex.out.kind = "view_isometric"

\* a callback is due: this is ENABLED <<Timeout>>_vars
TimerDue == \E i \in DOMAIN timers : timers[i] = 0

\* The event loop lets time pass (weak fairness of Elapse) and runs a due
\* callback (weak fairness of Timeout, written out with TimerDue for its
\* ENABLED: always eventually no callback is due, or a Timeout step is taken).
SpecLive ==
    /\ Spec
    /\ WF_vars(Elapse)
    /\ ([]<>(~TimerDue) \/ []<><<Timeout>>_vars)

-----------------------------------------------------------------------------
(* Claims about the render scheduler *)

Pending == timers # <<>>

\* a load that decodes its file
LoadVolumeOk ==
    \E path \in NiftiPaths :
        /\ path_exists(path) /\ ~load_nii_volume_raises(path)
        /\ Done(_load_volume(St, path), "other")

\* a load whose path is missing or whose file does not decode
LoadVolumeFailed ==
    \E path \in NiftiPaths :
        /\ ~path_exists(path) \/ load_nii_volume_raises(path)
        /\ Done(_load_volume(St, path), "none")

\* a colour really set: rows highlighted and the dialog accepted
ColorSet ==
    \E h \in HighlightChoices \ {<<>>}, c \in UserColors \ {""} :
        Done(_choose_color(St, h, c), "trigger")

\* C1: with a volume loaded, a burst of N >= 1 render-triggering events, each less
\* than the quiet period after the one before, gets exactly one render pass: none
\* while the burst lasts or before the quiet period has passed, one once the timer
\* has fired, and that pass read the render inputs as they were after the last event.
C1_Coalescing ==
    hist.burstN > 0 =>
        /\ hist.sinceEvent < RENDER_DEBOUNCE_MS => hist.burstRenders = 0
        /\ Pending => hist.burstRenders = 0
        /\ ~Pending => hist.burstRenders = 1 /\ hist.pass = hist.snap

\* a burst of two events has been rendered
C1_Witness ==
    /\ hist.burstN = 2 /\ ~Pending /\ hist.burstRenders = 1
    /\ hist.pass = hist.snap /\ hist.pass.sigma # DEFAULT_SIGMA

\* C2: once a render is pending and events stop, the timer expires, that expiry
\* executes exactly one render pass and leaves no timer running; Pending does not
\* last forever.
C2_PendingEndsInOneRender ==
    /\ [][Timeout => /\ hist'.renders = hist.renders + 1
                     /\ timers' = <<>>]_vars
    /\ (Pending ~> ~Pending)

\* one event after the load has been rendered by the timer
C2_Witness ==
    /\ hist.burstN = 1 /\ ~Pending /\ hist.renders = 2 /\ hist.burstRenders = 1

\* C3 as claimed: a successful load renders once at once and leaves no render
\* pending, whatever the scheduler's state was.
C3_LoadLeavesReady ==
    [][LoadVolumeOk => /\ hist'.renders = hist.renders + 1
                       /\ volume' # None
                       /\ timers' = <<>>]_vars

\* C3 amended: a successful load executes one render pass at once, inside the
\* load, reading the new labels and colours, and leaves the timer as it was: no
\* render pending after a load from Idle or Ready, the pending one still pending.
C3_LoadRendersAtOnce ==
    [][LoadVolumeOk => /\ hist'.renders = hist.renders + 1
                       /\ hist'.pass = Inputs(St)'
                       /\ volume' # None
                       /\ timers' = timers
                       /\ (volume = None => timers' = <<>>)]_vars

\* a volume was loaded while a render was pending: the render is still pending
C3_Witness ==
    /\ Pending /\ hist.burstN = 0 /\ hist.renders = 2
    /\ hist.pass = Inputs(St) /\ view = "left"

\* C4: without a volume every mutation is taken and none arms the timer: a
\* pending render implies a loaded volume, and no render pass has run without one.
C4_IdleNeverSchedules ==
    volume = None => timers = <<>> /\ hist.renders = 0

\* parameters, values and mode changed with no volume loaded
C4_Witness ==
    /\ volume = None /\ sigma # DEFAULT_SIGMA /\ label_values # <<>> /\ use_colormap

\* C5 as claimed: with a volume loaded every mutation of sigma, smoothing, style,
\* edges, view, check state, label colour, colormap name or range arms the timer.
C5_EveryMutationArms ==
    [][(volume # None /\ (\/ SigmaChanged \/ SmoothIterChanged \/ StyleChanged
                          \/ EdgesChanged \/ ViewChanged \/ ItemChecked \/ select_all
                          \/ clear_selection \/ ColorSet \/ ColormapSelected
                          \/ RangeEdited))
         => timers' = <<RENDER_DEBOUNCE_MS>>]_vars

\* C5 amended: with a volume loaded every mutation of sigma, smoothing, style,
\* edges, check state or label colour, and every change of the colormap name or
\* range made while colormap mode is on, (re-)arms the timer; a view change, and a
\* colormap name or range change made in palette mode, leave the timer as it is.
C5_RenderMutationArms ==
    [][(volume # None =>
          /\ (\/ SigmaChanged \/ SmoothIterChanged \/ StyleChanged \/ EdgesChanged
              \/ ItemChecked \/ select_all \/ clear_selection \/ ColorSet
              \/ (use_colormap /\ (ColormapSelected \/ RangeEdited)))
                => timers' = <<RENDER_DEBOUNCE_MS>>
          /\ (\/ ViewChanged
              \/ (~use_colormap /\ (ColormapSelected \/ RangeEdited)))
                => timers' = timers)]_vars

\* another colormap picked in colormap mode has armed the timer
C5_Witness ==
    /\ volume # None /\ use_colormap /\ current_colormap = "plasma"
    /\ timers = <<RENDER_DEBOUNCE_MS>> /\ hist.sinceEvent = 0

\* C6: at most one deferred render callback is outstanding; an event arriving
\* while the timer runs restarts it, and a burst gets at most one timer render.
C6_OneCallbackOutstanding ==
    /\ Len(timers) <= 1
    /\ hist.burstN > 0 => hist.burstRenders <= 1

\* a second event arrived while the timer of the first was running
C6_Witness ==
    /\ hist.burstN = 2 /\ timers = <<RENDER_DEBOUNCE_MS>> /\ hist.burstRenders = 0

-----------------------------------------------------------------------------
(* Claims about loading a volume *)

\* C9: a failed load (missing path, or decoding raises) changes the status
\* message and nothing else of the session.
C9_FailedLoadChangesNothing ==
    [][LoadVolumeFailed =>
          /\ UNCHANGED <<volume, spacing, origin, items, label_colors, label_values,
                         use_colormap, current_colormap, colormap_vmin, colormap_vmax,
                         vmin_spin, vmax_spin, sigma, smooth_iter, show_edges, style,
                         view, timers, scene, hist>>
          /\ status' \in {"File not found: missing.nii", "Failed to load: bad.nii"}]_vars

\* a file failed to decode while a volume was loaded and a render pending
C9_Witness ==
    /\ status = "Failed to load: bad.nii" /\ volume # None
    /\ Pending /\ scene.actors # <<>>

ItemLabels == [i \in DOMAIN items |-> items[i].lbl]

\* C10: after a successful load the label list is the distinct non-zero voxel
\* values in ascending order, every label is checked, and the label at position i
\* (from 0) has colour PALETTE[i mod 8], whatever the colours were before.
C10_LoadPopulatesLabels ==
    [][LoadVolumeOk =>
          /\ Range(ItemLabels') = Range(volume') \ {0}
          /\ \A i, j \in DOMAIN items' : i < j => items'[i].lbl < items'[j].lbl
          /\ \A i \in DOMAIN items' : items'[i].checked
          /\ DOMAIN label_colors' = DOMAIN items'
          /\ \A i \in DOMAIN items' :
                label_colors'[i] = <<items'[i].lbl, PALETTE[((i - 1) % 8) + 1]>>]_vars

\* nine labels loaded over an earlier volume: the ninth has the first colour again
C10_Witness ==
    /\ Len(items) = 9 /\ hist.renders = 2
    /\ label_colors[9] = <<9000, PALETTE[1]>> /\ label_colors[1] = <<1000, PALETTE[1]>>

-----------------------------------------------------------------------------
(* Claims about the colormap range *)

\* the "Auto" button with a table loaded
AutoRangeOnTable == label_values # <<>> /\ Done(auto_range(St), IF use_colormap /\ auto_range(St) # St THEN "trigger" ELSE "none")

\* the "Auto" button with no table loaded
AutoRangeNoTable == label_values = <<>> /\ Done(auto_range(St), "none")

\* a value file that yields at least one row has been loaded
LoadValuesOk ==
    \E path \in ValuePaths :
        /\ path_exists(path) /\ ParseValues(ValueFile(path)) # <<>>
        /\ Done(_load_values(St, path), "trigger")

\* the range get_color_for_value normalises with
ActiveRange == <<IF colormap_vmin # None THEN colormap_vmin[1] ELSE 0,
                 IF colormap_vmax # None THEN colormap_vmax[1] ELSE 1000>>

TableValues == {label_values[i][2] : i \in DOMAIN label_values}

\* the margin of auto-range in twentieths of a thousandth
Margin20 ==
    IF Max(TableValues) > Min(TableValues) THEN Max(TableValues) - Min(TableValues) ELSE 2000

ProgramVars == <<volume, spacing, origin, items, label_colors, label_values, use_colormap,
                 current_colormap, colormap_vmin, colormap_vmax, vmin_spin, vmax_spin,
                 sigma, smooth_iter, show_edges, style, view, timers, status, scene>>

\* C17 as claimed: after auto-range on a non-empty table, and after a value load
\* that parsed a row, the active range is exactly [m - margin, M + margin] with
\* margin = 0.05 * (M - m), or 0.1 when M = m; on an empty table nothing changes.
C17_AutoRangeExact ==
    [][/\ (AutoRangeOnTable \/ LoadValuesOk) =>
             /\ 20 * ActiveRange'[1] = 20 * Min(TableValues') - Margin20'
             /\ 20 * ActiveRange'[2] = 20 * Max(TableValues') + Margin20'
       /\ AutoRangeNoTable => UNCHANGED ProgramVars]_vars

\* C17 amended: the active range after auto-range (and after a value load that
\* parsed a row) is [m - margin, M + margin] rounded to the three decimals of the
\* range spin boxes: each end is a whole number of thousandths within half a
\* thousandth of the exact one; values 0.2 and 0.8 give [0.17, 0.83]; on an empty
\* table auto-range changes nothing.
C17_AutoRangeRounded ==
    [][/\ (AutoRangeOnTable \/ LoadValuesOk) =>
             LET lo == 20 * ActiveRange'[1] - (20 * Min(TableValues') - Margin20')
                 hi == 20 * ActiveRange'[2] - (20 * Max(TableValues') + Margin20')
             IN  /\ -10 <= lo /\ lo <= 10
                 /\ -10 <= hi /\ hi <= 10
                 /\ ActiveRange' = <<vmin_spin', vmax_spin'>>
                 /\ TableValues' = {200, 800} => ActiveRange' = <<170, 830>>
       /\ AutoRangeNoTable => UNCHANGED ProgramVars]_vars

\* values 0.204 and 0.8 loaded: 0.1742 and 0.8298 are kept as 0.174 and 0.830
C17_Witness ==
    /\ TableValues = {204, 800} /\ ActiveRange = <<174, 830>>
    /\ colormap_vmin = <<174>> /\ vmin_spin = 174

-----------------------------------------------------------------------------
(* Claims about the colour assignment *)

\* the colour the list shows for a label
ColorOf(colors, lbl) == DictGet(colors, lbl, NEUTRAL_COLOR)

\* the entries a dict holds for a key
Entries(d, k) == {j \in DOMAIN d : d[j][1] = k}

PaletteAt(i) == PALETTE[((i - 1) % 8) + 1]

\* the user switches colormap mode on / off
ColormapSwitchedOn == ~use_colormap /\ ColormapToggled

ColormapSwitchedOff == use_colormap /\ ColormapToggled

\* a step on which colormap colours are applied to the labels
ColormapApplied ==
    \/ ColormapSwitchedOn
    \/ use_colormap /\ (ColormapSelected \/ RangeEdited \/ AutoRangeOnTable \/ LoadValuesOk)

\* C11: after any sequence of operations the colour assignment holds exactly one
\* colour for every label of the list, and at each render pass every checked label
\* has exactly one colour, which is the colour its mesh is drawn with.
C11_OneColorPerLabel ==
    /\ \A i \in DOMAIN items : Cardinality(Entries(label_colors, items[i].lbl)) = 1
    /\ \A j \in DOMAIN label_colors : label_colors[j][2] # ""
    /\ \A i \in DOMAIN hist.pass.labels :
          Cardinality(Entries(hist.pass.colors, hist.pass.labels[i])) = 1
    /\ \A a \in DOMAIN scene.actors :
          /\ Cardinality(Entries(hist.pass.colors, scene.actors[a].label)) = 1
          /\ scene.actors[a].color = ColorOf(hist.pass.colors, scene.actors[a].label)

\* rendered in colormap mode: one label coloured by its value, one without a
\* value drawn with the colour the user chose
C11_Witness ==
    /\ use_colormap /\ ItemLabels = <<2000, 5000>> /\ hist.renders = 2
    /\ HasKey(label_values, 5000) /\ ~HasKey(label_values, 2000)
    /\ hist.pass.colors = label_colors /\ Len(scene.actors) = 1
    /\ scene.actors[1].label = 2000 /\ scene.actors[1].color = "#000000"
    /\ ColorOf(label_colors, 5000) = get_color_for_value(St, 500)

C13_ColormapColorsAtRender ==
    [][(hist'.renders = hist.renders + 1 /\ use_colormap') =>
          \A i \in DOMAIN hist'.pass.labels :
              HasKey(label_values', hist'.pass.labels[i]) =>
                  ColorOf(hist'.pass.colors, hist'.pass.labels[i])
                      = get_color_for_value(St', DictGet(label_values', hist'.pass.labels[i], 0))]_vars

\* C14: switching from colormap mode to palette mode gives every label of the
\* list, checked or not, the colour PALETTE[i mod 8] of its position i (from 0) in
\* the list, whatever the colours were before.
C14_SwitchToPalette ==
    [][ColormapSwitchedOff =>
          /\ ~use_colormap'
          /\ items' = items
          /\ Len(label_colors') = Len(items')
          /\ \A i \in DOMAIN items' :
                label_colors'[i] = <<items'[i].lbl, PaletteAt(i)>>]_vars

\* the user's colour, the last thing the status reports, is gone after the
\* switch back to palette mode
C14_Witness ==
    /\ ~use_colormap /\ status = "Set color #000000 for 1 ROI(s)."
    /\ ItemLabels = <<2000, 5000>>
    /\ label_colors = << <<2000, PALETTE[1]>>, <<5000, PALETTE[2]>> >>
    /\ hist.sinceEvent = 0 /\ nev = 4

\* C15: clearing the value table leaves colormap mode, empties the table, and
\* leaves every label of the list with PALETTE[position mod 8], whichever labels
\* are checked and whether or not colormap mode was on.
C15_ClearResetsPalette ==
    [][ClearValues =>
          /\ ~use_colormap'
          /\ label_values' = <<>>
          /\ \A i \in DOMAIN items' :
                ColorOf(label_colors', items'[i].lbl) = PaletteAt(i)]_vars

\* C16: a colour the user set for a label stays that label's colour over every
\* step other than a volume load, a clear of the value table and a switch out of
\* colormap mode; so also over a value load in palette mode and over changes of
\* sigma, smoothing, style, edges, view and check states.
C16_OverridePersists ==
    [][~(LoadVolumeOk \/ ClearValues \/ ColormapSwitchedOff) =>
          \A j \in DOMAIN label_colors :
              label_colors[j][2] \in (UserColors \ {""}) =>
                  ColorOf(label_colors', label_colors[j][1]) = label_colors[j][2]]_vars

-----------------------------------------------------------------------------
(* Claims about the renderer *)

\* C20: the style of a render pass determines how every mesh of the pass is drawn:
\* 2D flat is parallel projection, anti-aliasing off, ambient 1.0, diffuse 0.1,
\* specular 0, unlit, flat shading and no edges whatever the edge flag; 3D shading
\* is perspective projection, anti-aliasing on, ambient 0.25, diffuse 0.6, specular
\* 0.15, lit, smooth shading, and edges exactly when the edge flag is set.
C20_StyleDeterminesRendering ==
    scene.actors # <<>> =>
        /\ scene.parallel = hist.pass.is_2d
        /\ scene.anti_aliasing = ~hist.pass.is_2d
        /\ \A a \in DOMAIN scene.actors :
              LET m == scene.actors[a]
              IN  IF hist.pass.is_2d
                  THEN /\ m.ambient = 100 /\ m.diffuse = 10 /\ m.specular = 0
                       /\ ~m.lighting /\ ~m.smooth_shading /\ ~m.show_edges
                  ELSE /\ m.ambient = 25 /\ m.diffuse = 60 /\ m.specular = 15
                       /\ m.lighting /\ m.smooth_shading
                       /\ m.show_edges = hist.pass.show_edges

\* a 2D flat pass with the edge flag set: the mesh is drawn without edges
C20_Witness ==
    /\ scene.actors # <<>> /\ hist.pass.is_2d /\ hist.pass.show_edges
    /\ scene.parallel /\ ~scene.actors[1].show_edges /\ scene.actors[1].ambient = 100


-----------------------------------------------------------------------------
(* The scene after a render pass *)

\* the meshes the latest render pass extracted (the volume changes only in a
\* load, which runs a pass itself)
PassMeshes ==
    IF volume = None THEN <<>>
    ELSE extract_label_meshes(volume, hist.pass.labels, spacing, origin,
                              hist.pass.sigma, hist.pass.smooth_iter, 100, 500)

\* the latest render pass went through render_meshes
RenderedMeshes == hist.renders > 0 /\ PassMeshes # <<>>

\* C21: after every pass through render_meshes the scene holds exactly the
\* three fixed lights (not none, not six or more) and exactly the meshes of
\* this pass, one actor per mesh in order, nothing left from an earlier pass
C21_ThreeLightsThisPassOnly ==
    RenderedMeshes =>
        /\ Len(scene.lights) = 3
        /\ scene.lights = ThreePointLights
        /\ Len(scene.actors) = Len(PassMeshes)
        /\ \A i \in DOMAIN PassMeshes :
              /\ scene.actors[i].label = PassMeshes[i].label
              /\ scene.actors[i].mesh = PassMeshes[i].mesh

\* the third pass draws one mesh after a pass that drew others
C21_Witness ==
    /\ hist.renders = 3 /\ RenderedMeshes /\ hist.pass.sigma = 0
    /\ Len(scene.actors) = 1 /\ Len(scene.lights) = 3


\* C22: a render pass with a volume loaded never fails for lack of geometry:
\* with no label checked the scene is cleared and the status is "No labels
\* selected." without extraction being run; with labels checked and no mesh
\* extracted the scene is cleared and the status is "No meshes extracted with
\* current settings."; in both cases the scene ends empty
C22_NothingToDrawClearsScene ==
    [][(hist'.renders = hist.renders + 1) =>
          /\ hist'.pass.labels = <<>> =>
                /\ scene'.actors = <<>>
                /\ status' = "No labels selected."
                /\ hist'.extractions = hist.extractions
          /\ (hist'.pass.labels # <<>> /\ PassMeshes' = <<>>) =>
                /\ scene'.actors = <<>>
                /\ status' = "No meshes extracted with current settings."
                /\ hist'.extractions = hist.extractions + 1]_vars

\* after a pass that drew a mesh, a pass whose only checked label yields none
C22_Witness ==
    /\ hist.renders = 2 /\ hist.pass.labels = <<5000>> /\ PassMeshes = <<>>
    /\ scene.actors = <<>> /\ status = "No meshes extracted with current settings."


\* C23: with sigma and smooth_iter the same, a render with the set S checked,
\* then a render with nothing checked (an empty scene), then a render with
\* exactly S checked again draws the same (label, mesh, color) sequence as the
\* first of the three
C23_UncheckRecheckRoundTrip ==
    (/\ Len(hist.log) = 3
     /\ hist.log[2].labels = <<>>
     /\ hist.log[3].labels = hist.log[1].labels
     /\ hist.log[3].sigma = hist.log[1].sigma
     /\ hist.log[3].smooth_iter = hist.log[1].smooth_iter)
    => /\ hist.log[2].drawn = <<>>
       /\ hist.log[3].drawn = hist.log[1].drawn

\* one of two labels checked and drawn, then none, then the same one again
C23_Witness ==
    /\ Len(hist.log) = 3 /\ Len(items) = 2
    /\ hist.log[1].labels = <<2000>> /\ hist.log[2].labels = <<>>
    /\ hist.log[3].labels = <<2000>> /\ hist.log[2].drawn = <<>>
    /\ Len(hist.log[3].drawn) = 1 /\ hist.log[3].drawn = hist.log[1].drawn


-----------------------------------------------------------------------------
(* Loading a value table *)

\* one call of the parsing of ColormapPanel._load_values on a file of at most
\* MaxRows rows after the first
MaxRows == 3

ParseHeaders ==
    {<<"label", "value">>, <<"value", "label">>, <<"1", "0.5">>,
     <<"name", "ID", " Score">>, <<>>}

ParseRowChoices ==
    {<<"1", "0.5">>, <<"1", "0.8">>, <<"2">>, <<"abc", "0.3">>, <<"2", "x">>, <<>>,
     <<"x", "2", "0.2">>, <<"0.8", "1">>}

ParseFiles ==
    {[header |-> None, rows |-> <<>>]} \cup
    {[header |-> <<h>>, rows |-> r] : h \in ParseHeaders, r \in SeqsUpTo(ParseRowChoices, MaxRows)}

InitParse ==
    /\ InitGui
    /\ ex \in {[pc |-> "call", file |-> f, out |-> <<>>] : f \in ParseFiles}

ParseCall ==
    /\ ex.pc = "call"
    /\ ex' = [ex EXCEPT !.pc = "done", !.out = ParseValues(ex.file)]
    /\ UNCHANGED guiVars

NextParse == ParseCall

SpecParse == InitParse /\ [][NextParse]_vars

\* every row of the file, the first included
FileRows(f) == (IF f.header = None THEN <<>> ELSE f.header) \o f.rows

\* the columns (from 1) the first row names
LabelColOf(f) ==
    IF f.header = None THEN 1
    ELSE DetectCol(f.header[1], {"label", "roi", "region", "id", "index"}, 1)

ValueColOf(f) ==
    IF f.header = None THEN 2
    ELSE DetectCol(f.header[1], {"value", "score", "overlap", "weight", "magnitude"}, 2)

\* at least two fields, and a numeric label field and value field
WellFormed(f, i) ==
    LET row == FileRows(f)[i]
    IN  /\ Len(row) >= 2
        /\ LabelColOf(f) <= Len(row) /\ ValueColOf(f) <= Len(row)
        /\ float_ok(row[LabelColOf(f)]) /\ float_ok(row[ValueColOf(f)])

RowLabel(f, i) == FloatTable[FileRows(f)[i][LabelColOf(f)]]

RowValue(f, i) == FloatTable[FileRows(f)[i][ValueColOf(f)]]

\* C25: each malformed row (fewer than two fields, non-numeric label or value
\* field) is skipped on its own and every well-formed row is installed: the
\* table is exactly the mapping of the well-formed rows, a later row for a
\* label replacing an earlier one, and no malformed row ends the load
C25_WellFormedRowsInstalled ==
    ex.pc = "done" =>
        LET f == ex.file
            good == {i \in DOMAIN FileRows(f) : WellFormed(f, i)}
        IN  /\ \A i \in good :
                  /\ HasKey(ex.out, RowLabel(f, i))
                  /\ DictGet(ex.out, RowLabel(f, i), -1) =
                        RowValue(f, Max({j \in good : RowLabel(f, j) = RowLabel(f, i)}))
            /\ \A e \in DOMAIN ex.out :
                  /\ \E i \in good : RowLabel(f, i) = ex.out[e][1]
                  /\ \A e2 \in DOMAIN ex.out : ex.out[e2][1] = ex.out[e][1] => e2 = e

\* a numeric first row, a short row, a row replaced by a later row for the label
C25_Witness ==
    /\ ex.pc = "done"
    /\ ex.file = [header |-> << <<"1", "0.5">> >>,
                  rows |-> << <<"2">>, <<"1", "0.8">>, <<"abc", "0.3">> >>]
    /\ ex.out = << <<1000, 800>> >>

\* "Load Values" on an existing file none of whose rows parses
LoadValuesEmpty ==
    \E path \in ValuePaths :
        /\ path_exists(path) /\ ParseValues(ValueFile(path)) = <<>>
        /\ Done(_load_values(St, path), "none")

\* C24: a value-table load that parses zero valid rows is a no-op: the value
\* table installed before, the label colours, the colormap mode and range and
\* the scheduler state are unchanged (and no error reaches the user)
C24_ZeroRowLoadIsNoOp ==
    [][LoadValuesEmpty =>
          /\ label_values' = label_values
          /\ label_colors' = label_colors
          /\ use_colormap' = use_colormap /\ current_colormap' = current_colormap
          /\ colormap_vmin' = colormap_vmin /\ colormap_vmax' = colormap_vmax
          /\ timers' = timers /\ status' = status]_vars


-----------------------------------------------------------------------------
(* mesh_viz.py: the command line, one run of main *)

\* visualize_mesh: the plotter it builds, how it is shown, the file written
\* and the value returned (a Path given as screenshot is always true)
visualize_mesh(mesh, color, background, vw, screenshot, edges) ==
    LET plotter == [off_screen |-> screenshot # None, background |-> background,
                    mesh |-> mesh, color |-> color, show_edges |-> edges,
                    camera |-> _set_view(plotter_bounds([actors |-> <<[mesh |-> mesh]>>]), vw)]
    IN  IF screenshot # None
        THEN [plotter |-> <<plotter>>, shown |-> "screenshot", file |-> screenshot,
              returns |-> screenshot]
        ELSE [plotter |-> <<plotter>>, shown |-> "window", file |-> None, returns |-> None]

\* what a run leaves behind: exit status, the lines on stderr and stdout, the
\* result of the extraction, the plotter and how it was shown, the file written
Outcome(exit, stderr, stdout, mesh, vis) ==
    [exit |-> exit, stderr |-> stderr, stdout |-> stdout, mesh |-> mesh,
     plotter |-> vis.plotter, shown |-> vis.shown, file |-> vis.file]

NoVis == [plotter |-> None, shown |-> "nothing", file |-> None, returns |-> None]

\* the field and the isovalue main chooses
main_field(args, vol) == IF args.label # None THEN Mask(vol, args.label[1]) ELSE vol

\* the isovalue taken from --threshold even when --label is given
main_isovalue_AlwaysThreshold(args) == args.threshold

main_isovalue(args) == IF args.label # None THEN 500 ELSE args.threshold

\* main that reports a missing surface on stdout and returns
main_ReturnsOnNoMesh(args) ==
    IF ~path_exists(args.input) \/ load_nii_volume_raises(args.input)
    THEN Outcome(1, <<[text |-> "Traceback", input |-> args.input, isovalue |-> 0]>>,
                 <<>>, None, NoVis)
    ELSE
      LET f == load_nii_volume(args.input)
          mesh == extract_isosurface(main_field(args, f.data), f.spacing, f.origin,
                                     main_isovalue(args), args.sigma, args.smooth_iter,
                                     args.smooth_relax)
          vis == visualize_mesh(mesh[1], args.color, args.background, args.view,
                                args.screenshot, args.show_edges)
      IN  IF mesh = None
          THEN Outcome(0, <<>>,
                       <<[text |-> "No surface extracted", input |-> args.input,
                          isovalue |-> main_isovalue(args)]>>, None, NoVis)
          ELSE IF vis.returns # None
          THEN Outcome(0, <<>>, <<[text |-> "Saved screenshot to", path |-> vis.returns[1]]>>,
                       mesh, vis)
          ELSE Outcome(0, <<>>, <<>>, mesh, vis)

\* main: an exception of load_nii_volume and the SystemExit with a message
\* both end the run with status 1 and text on stderr
main(args) ==
    IF ~path_exists(args.input) \/ load_nii_volume_raises(args.input)
    THEN Outcome(1, <<[text |-> "Traceback", input |-> args.input, isovalue |-> 0]>>,
                 <<>>, None, NoVis)
    ELSE
      LET f == load_nii_volume(args.input)
          mesh == extract_isosurface(main_field(args, f.data), f.spacing, f.origin,
                                     main_isovalue(args), args.sigma, args.smooth_iter,
                                     args.smooth_relax)
          vis == visualize_mesh(mesh[1], args.color, args.background, args.view,
                                args.screenshot, args.show_edges)
      IN  IF mesh = None
          THEN Outcome(1, <<[text |-> "No surface extracted", input |-> args.input,
                             isovalue |-> main_isovalue(args)]>>,
                       <<>>, None, NoVis)
          ELSE IF vis.returns # None
          THEN Outcome(0, <<>>, <<[text |-> "Saved screenshot to", path |-> vis.returns[1]]>>,
                       mesh, vis)
          ELSE Outcome(0, <<>>, <<>>, mesh, vis)

\* the arguments of a run
CliInputs == {"a.nii", "b.nii", "missing.nii"}

CliLabels == {None, <<2000>>, <<5000>>, <<7000>>}

\* --threshold: absent, or a value
CliThresholds == {None, <<500>>, <<3000>>, <<9000>>}

CliSmoothIters == {0, 50}

CliViews == {"iso", "left"}

CliScreenshots == {None, <<"out.png">>}

\* the command lines: what is given for each option
CliArgv ==
    {[input |-> inp, label |-> lb, threshold |-> th, sigma |-> sg, smooth_iter |-> it,
      view |-> vw, screenshot |-> sh] :
        inp \in CliInputs, lb \in CliLabels, th \in CliThresholds, sg \in SigmaValues,
        it \in CliSmoothIters, vw \in CliViews, sh \in CliScreenshots}

\* _parse_args: the options given, and the defaults of those left out
_parse_args(argv) ==
    [input |-> argv.input, label |-> argv.label,
     threshold |-> IF argv.threshold = None THEN 500 ELSE argv.threshold[1],
     sigma |-> argv.sigma, smooth_iter |-> argv.smooth_iter,
     smooth_relax |-> 100, color |-> "#4C78A8", background |-> "white", view |-> argv.view,
     screenshot |-> argv.screenshot, show_edges |-> FALSE]

InitCli ==
    /\ InitGui
    /\ ex \in {[pc |-> "call", argv |-> a, args |-> <<>>, out |-> <<>>] : a \in CliArgv}

MainCall ==
    /\ ex.pc = "call"
    /\ ex' = [ex EXCEPT !.pc = "done", !.args = _parse_args(ex.argv),
                        !.out = main(_parse_args(ex.argv))]
    /\ UNCHANGED guiVars

NextCli == MainCall

SpecCli == InitCli /\ [][NextCli]_vars

\* the run got as far as the extraction
CliExtracted == ex.pc = "done" /\ path_exists(ex.args.input) /\ ~load_nii_volume_raises(ex.args.input)

\* C26: when the extraction yields no geometry the run ends with a non-zero
\* exit status and a message naming the input and the isovalue tried, and
\* nothing is visualized or written; when there is geometry and a screenshot
\* path, the path is printed; when there is geometry and no screenshot path,
\* nothing is printed and an interactive window is opened
C26_CliOutcomes ==
    CliExtracted =>
        LET a == ex.args
            o == ex.out
        IN  /\ o.mesh = None =>
                  /\ o.exit # 0
                  /\ Len(o.stderr) = 1 /\ o.stderr[1].input = a.input
                  /\ o.stderr[1].isovalue = (IF a.label # None THEN 500 ELSE a.threshold)
                  /\ o.stdout = <<>> /\ o.plotter = None /\ o.shown = "nothing"
                  /\ o.file = None
            /\ (o.mesh # None /\ a.screenshot # None) =>
                  /\ o.exit = 0 /\ o.file = a.screenshot /\ o.shown = "screenshot"
                  /\ o.stdout = <<[text |-> "Saved screenshot to", path |-> a.screenshot[1]]>>
            /\ (o.mesh # None /\ a.screenshot = None) =>
                  /\ o.exit = 0 /\ o.stdout = <<>> /\ o.file = None
                  /\ o.shown = "window" /\ ~o.plotter[1].off_screen

\* a label the volume does not hold, with a screenshot path given
C26_Witness ==
    /\ CliExtracted /\ ex.args.label = <<7000>> /\ ex.args.screenshot # None
    /\ ex.out.mesh = None /\ ex.out.exit = 1 /\ ex.out.file = None


-----------------------------------------------------------------------------
(* Saving a screenshot *)

\* "Save screenshot" with this dialog result and this fate of the write
ScreenshotStep(path, write) == Done(_save_screenshot(St, path, write), "none")

\* C27: save_screenshot never raises: it returns False when there is no render
\* window or the write fails and True otherwise; the controller turns the
\* result into a status message, and the volume, the labels, the colours, the
\* scheduler and the scene are as before
C27_ScreenshotNeverRaises ==
    /\ [](\A path \in ShotPaths \ {""}, write \in WriteOutcomes :
            /\ save_screenshot(scene, path, write)
                  = Returned(scene.ren_win # None /\ write = "written")
            /\ save_screenshot([scene EXCEPT !.ren_win = None], path, write)
                  = Returned(FALSE))
    /\ [][\A path \in ShotPaths, write \in WriteOutcomes :
            ScreenshotStep(path, write) =>
              /\ UNCHANGED <<volume, spacing, origin, items, label_colors, label_values,
                             use_colormap, current_colormap, colormap_vmin, colormap_vmax,
                             vmin_spin, vmax_spin, sigma, smooth_iter, show_edges, style,
                             view, timers, scene>>
              /\ hist'.renders = hist.renders
              /\ status' = IF path = "" THEN status
                           ELSE IF write = "written" THEN "Saved screenshot: " \o path
                           ELSE "Failed to save screenshot."]_vars

\* the write failed while a render was pending: the timer still runs
C27_Witness ==
    /\ status = "Failed to save screenshot." /\ volume # None
    /\ timers = <<RENDER_DEBOUNCE_MS>> /\ scene.actors # <<>>


-----------------------------------------------------------------------------
(* The scene at rest *)

\* what the scene shows depends on
RenderInputs ==
    <<volume, spacing, origin, get_checked_labels(items), sigma, smooth_iter,
      label_colors, style, show_edges>>

\* the actors of the non-empty meshes of the checked labels, in list order,
\* under the current blur, smoothing, colours, style and edge flag
ExpectedActors ==
    LET meshes == extract_label_meshes(volume, get_checked_labels(items), spacing, origin,
                                       sigma, smooth_iter, 100, 500)
    IN  [i \in DOMAIN meshes |->
            _add_mesh(meshes[i].label, meshes[i].mesh, ColorOf(label_colors, meshes[i].label),
                      style = "2D flat", show_edges)]

\* C28: whenever a volume is loaded and no render is pending, the scene holds
\* exactly the non-empty meshes of the checked labels, in list order, extracted
\* with the current sigma and smooth_iter and drawn with the current colours,
\* style and edge flag; and no operation changes one of these inputs without
\* rendering at once or arming the timer
C28_ConsistentAtRest ==
    /\ []((volume # None /\ ~Pending) =>
            /\ scene.actors = ExpectedActors
            /\ scene.actors # <<>> => scene.parallel = (style = "2D flat"))
    /\ [][(volume' # None /\ RenderInputs' # RenderInputs) =>
            (Pending' \/ hist'.renders = hist.renders + 1)]_vars

\* at rest after a colour was picked and the timer ran, the scene showing it
C28_Witness ==
    /\ volume # None /\ ~Pending /\ hist.renders = 2
    /\ scene.actors # <<>> /\ scene.actors[1].color = "#000000"
    /\ scene.actors = ExpectedActors


-----------------------------------------------------------------------------
(* Checking and colours *)

\* a check box, "Select all" or "Clear"
SelectionStep == ItemChecked \/ select_all \/ clear_selection

\* C29: in palette mode, checking or unchecking labels (one by one, all, none)
\* leaves every label's colour as it was, and a mesh is drawn in the colour of
\* its label whichever other labels are checked
C29_CheckingKeepsColors ==
    /\ [][(~use_colormap /\ SelectionStep) => label_colors' = label_colors]_vars
    /\ [][(~use_colormap' /\ hist'.renders = hist.renders + 1) =>
            \A a \in DOMAIN scene'.actors :
                scene'.actors[a].color = ColorOf(label_colors', scene'.actors[a].label)]_vars

\* the second label of the list drawn alone, in its own palette colour
C29_Witness ==
    /\ ~use_colormap /\ ~Pending /\ hist.renders >= 2
    /\ Len(items) = 2 /\ get_checked_labels(items) = <<items[2].lbl>>
    /\ Len(scene.actors) = 1 /\ scene.actors[1].label = items[2].lbl
    /\ scene.actors[1].color = PALETTE[2]


-----------------------------------------------------------------------------
(* gui/renderer.py: one call of render_meshes on at most MaxMeshes meshes *)

MaxMeshes == 9

\* a mesh that is told from the others by its label
MeshOf(lbl) == [points |-> {lbl}, yz |-> <<0, 0>>, smoothed |-> <<>>]

\* (label, mesh) sequences: labels ascending and descending
RenderMeshSeqs ==
    {[i \in 1..n |-> [label |-> i * 1000, mesh |-> MeshOf(i * 1000)]] : n \in 0..MaxMeshes}
    \cup {[i \in 1..n |-> [label |-> (n + 1 - i) * 1000, mesh |-> MeshOf((n + 1 - i) * 1000)]] :
              n \in 0..MaxMeshes}

\* the colour map with the user colour for the labels of K
SortedPairs(K) == LET ks == SortedSeq(K) IN [i \in DOMAIN ks |-> <<ks[i], "#123456">>]

\* colour maps that hold some of the labels
RenderColorMaps ==
    {SortedPairs(K) : K \in SUBSET {1000, 2000, MaxMeshes * 1000}}

\* the scene of the call: new, or holding an actor of an earlier pass
RenderScenes ==
    {InitScene,
     [InitScene EXCEPT !.actors = <<_add_mesh(4000, MeshOf(4000), "#000000", FALSE, FALSE)>>,
                       !.lights = ThreePointLights]}

InitRender ==
    /\ InitGui
    /\ ex \in {[pc |-> "call", sc |-> sc, label_meshes |-> ms, label_colors |-> cm,
                is_2d |-> d, show_edges |-> e, view |-> vw, out |-> sc] :
                  sc \in RenderScenes, ms \in RenderMeshSeqs, cm \in RenderColorMaps,
                  d \in BOOLEAN, e \in BOOLEAN, vw \in {"iso", "left"}}

RenderCall ==
    /\ ex.pc = "call"
    /\ ex' = [ex EXCEPT !.pc = "done",
                        !.out = render_meshes(ex.sc, ex.label_meshes, ex.label_colors,
                                              ex.is_2d, ex.show_edges, ex.view)]
    /\ UNCHANGED guiVars

NextRender == RenderCall

SpecRender == InitRender /\ [][NextRender]_vars

\* C30: render_meshes adds the meshes in the order of its input, each in the
\* colour the colour map holds for its label or, when the map has no entry for
\* the label, in PALETTE[idx mod 8], idx being the place (from 0) of the label
\* in the input
C30_InputOrderAndColors ==
    ex.pc = "done" =>
        /\ Len(ex.out.actors) = Len(ex.label_meshes)
        /\ \A i \in DOMAIN ex.label_meshes :
              LET lbl == ex.label_meshes[i].label
              IN  /\ ex.out.actors[i].label = lbl
                  /\ ex.out.actors[i].mesh = ex.label_meshes[i].mesh
                  /\ ex.out.actors[i].color =
                        IF HasKey(ex.label_colors, lbl)
                        THEN DictGet(ex.label_colors, lbl, "")
                        ELSE PALETTE[((i - 1) % 8) + 1]

\* nine meshes over an older actor: the first coloured from the map, the
\* ninth, absent from the map, from the start of the palette again
C30_Witness ==
    /\ ex.pc = "done" /\ ex.sc.actors # <<>> /\ Len(ex.out.actors) = 9
    /\ HasKey(ex.label_colors, 1000) /\ ~HasKey(ex.label_colors, 9000)
    /\ ex.out.actors[1].label = 1000 /\ ex.out.actors[1].color = "#123456"
    /\ ex.out.actors[9].label = 9000 /\ ex.out.actors[9].color = PALETTE[1]


-----------------------------------------------------------------------------
(* Colormap settings and the colours *)

\* the colormap check box goes on while no value is loaded
ColormapOnWithoutValues ==
    /\ ~use_colormap /\ label_values = <<>> /\ ColormapToggled

\* C31: switching colormap mode on while the value table is empty changes no
\* label's colour: every label keeps the palette colour or the colour picked
\* for it that it had before
C31_EmptyTableToggleKeepsColors ==
    [][ColormapOnWithoutValues => (use_colormap' /\ label_colors' = label_colors)]_vars

\* colormap mode on, no values, and the colour picked for a label still there
C31_Witness ==
    /\ use_colormap /\ label_values = <<>> /\ volume # None
    /\ \E i \in DOMAIN label_colors : label_colors[i][2] = "#000000"


-----------------------------------------------------------------------------
(* The view controls *)

\* another view preset is chosen, or "Reset view" is pressed
ViewStep == ViewChanged \/ ResetView

\* C32: a view-preset change or a "Reset view" applies the camera of the
\* current preset at once, runs no extraction and no render pass, neither arms
\* nor cancels the timer, and leaves the meshes of the scene and their colours
\* as they are
C32_ViewIsCameraOnly ==
    [][ViewStep =>
          /\ scene'.camera = _apply_view(scene, view').camera
          /\ scene'.actors = scene.actors
          /\ timers' = timers
          /\ hist'.renders = hist.renders /\ hist'.extractions = hist.extractions
          /\ label_colors' = label_colors]_vars

\* a preset chosen while a render is pending: the camera is there, the timer
\* still runs, the scene is that of the pass before
C32_Witness ==
    /\ view = "top" /\ hist.pass.view # "top" /\ hist.renders = 1
    /\ timers = <<RENDER_DEBOUNCE_MS>> /\ scene.actors # <<>>
    /\ scene.camera = _apply_view(scene, "top").camera
    /\ scene.camera # _apply_view(scene, hist.pass.view).camera


\* the colormap name or the range is changed while colormap mode is off
PaletteSettingStep == ~use_colormap /\ (ColormapSelected \/ RangeEdited \/ AutoRange)

\* C33: while colormap mode is off, a change of the colormap name or of the
\* range (the "Auto" button included) changes no label colour and schedules no
\* render: the stored name and range (with the spin boxes) are all that changes
C33_PaletteModeSettingsAreInert ==
    [][PaletteSettingStep =>
          /\ UNCHANGED <<volume, spacing, origin, items, label_colors, label_values,
                         use_colormap, sigma, smooth_iter, show_edges, style, view,
                         timers, status, scene>>
          /\ hist'.renders = hist.renders]_vars

\* name and range changed in palette mode with a volume loaded: nothing pending,
\* the palette colours in place
C33_Witness ==
    /\ ~use_colormap /\ volume # None /\ ~Pending /\ hist.renders = 1
    /\ current_colormap = "plasma" /\ colormap_vmin = <<-1000>>
    /\ label_colors = populate_colors(ItemLabels)


-----------------------------------------------------------------------------
(* The steps of the extraction of one label *)

\* where the surface of the bare mask of lbl lies at isovalue th: between a
\* voxel of the label and a neighbour that is not, th/1000 of a voxel from the
\* one outside the label
MaskSurfacePoints(V, lbl, th) ==
    IF th <= 0 \/ th > 1000 THEN {}
    ELSE {ExOrigin[1] + ExSpacing[1] * (i - 1) + (IF V[i] = lbl THEN 1000 - th ELSE th) :
             i \in {j \in 1..(Len(V) - 1) : (V[j] = lbl) # (V[j + 1] = lbl)}}

\* the field the isosurface of lbl is taken from in the call
ExField(lbl) ==
    IF ex.sigma > 0 THEN gaussian_filter(Mask(ex.V, lbl), ex.sigma) ELSE Mask(ex.V, lbl)

\* C34: the steps of the extraction of a label are conditional and ordered:
\* the Gaussian filter runs only when sigma > 0, the isosurface is taken at the
\* threshold given, an empty isosurface gives no mesh (and is not smoothed),
\* mesh smoothing runs only when smooth_iter > 0; with sigma = 0 and
\* smooth_iter = 0 the mesh is the unsmoothed isosurface of the binary mask
C34_ExtractionSteps ==
    ex.pc = "done" =>
        /\ \A i \in DOMAIN ex.out :
              LET lbl == ex.out[i].label
                  m == ex.out[i].mesh
              IN  /\ m.points = contour(ExField(lbl), ExSpacing, ExOrigin, ex.threshold).points
                  /\ m.points # {}
                  /\ m.smoothed = IF ex.smooth_iter > 0 THEN <<ex.smooth_iter, 100>> ELSE <<>>
                  /\ ex.sigma = 0 => m.points = MaskSurfacePoints(ex.V, lbl, ex.threshold)
                  /\ (ex.sigma = 0 /\ ex.smooth_iter = 0) =>
                        m = [points |-> MaskSurfacePoints(ex.V, lbl, ex.threshold),
                             yz |-> <<ExOrigin[2], ExOrigin[3]>>, smoothed |-> <<>>]
        /\ \A j \in DOMAIN ex.L :
              (\E i \in DOMAIN ex.out : ex.out[i].label = ex.L[j])
                  <=> contour(ExField(ex.L[j]), ExSpacing, ExOrigin, ex.threshold).points # {}
        /\ ex.sigma = 0 =>
              \A j \in DOMAIN ex.L :
                  (\E i \in DOMAIN ex.out : ex.out[i].label = ex.L[j])
                      <=> MaskSurfacePoints(ex.V, ex.L[j], ex.threshold) # {}

\* no blur, no smoothing, isovalue 0.3: the bare surface of the mask, off the
\* middle between the voxels
C34_Witness ==
    /\ ex.pc = "done" /\ ex.sigma = 0 /\ ex.smooth_iter = 0 /\ ex.threshold = 300
    /\ ex.V = <<0, 5000, 0, 2000, 2000>> /\ ex.L = <<5000, 7000>>
    /\ Len(ex.out) = 1 /\ ex.out[1].mesh.points = {300, 1700}
    /\ ex.out[1].mesh.smoothed = <<>>


-----------------------------------------------------------------------------
(* The field the command line extracts from *)

\* the surface of this field at this isovalue, under the other arguments of the run
CliSurface(field, isovalue) ==
    LET f == load_nii_volume(ex.args.input)
    IN  extract_isosurface(field, f.spacing, f.origin, isovalue, ex.args.sigma,
                           ex.args.smooth_iter, ex.args.smooth_relax)

\* C35: with --label the surface is that of the binary mask (volume == label)
\* at isovalue 0.5, and --threshold has no effect on the run; without --label
\* the raw volume is isosurfaced at --threshold, 0.5 when it is left out
C35_CliFieldSelection ==
    CliExtracted =>
        LET vol == load_nii_volume(ex.args.input).data
        IN  /\ ex.argv.label # None =>
                  /\ ex.out.mesh = CliSurface([i \in DOMAIN vol |->
                                       IF vol[i] = ex.argv.label[1] THEN 1000 ELSE 0], 500)
                  /\ \A t \in CliThresholds :
                        main(_parse_args([ex.argv EXCEPT !.threshold = t])) = ex.out
            /\ ex.argv.label = None =>
                  ex.out.mesh = CliSurface(vol, IF ex.argv.threshold = None THEN 500
                                                ELSE ex.argv.threshold[1])

\* a label given together with a threshold above every voxel value: the mask
\* of the label still yields its surface
C35_Witness ==
    /\ CliExtracted /\ ex.argv.label = <<2000>> /\ ex.argv.threshold = <<9000>>
    /\ ex.out.mesh # None /\ ex.out.exit = 0
    /\ CliSurface(load_nii_volume(ex.args.input).data, 9000) = None

====
